---- MODULE Spec2Model ----
(***************************************************************************)
(* Model of the ESP32 terminal's network layer                             *)
(* (esp32-terminal/src/network.cpp): the connection state machine driven   *)
(* by networkUpdate(), the WebSocket event callback, UDP discovery, the    *)
(* retry command and the outbound command senders.                         *)
(*                                                                         *)
(* Every C++ function is an operator from a state record to a state        *)
(* record; an action applies one public function to the current state.     *)
(* The transport (WiFi, WiFiUDP, WebSocketsClient, millis) is the          *)
(* environment: its answers are the inputs of the actions.                 *)
(***************************************************************************)
EXTENDS Integers, Sequences, FiniteSets, TLC

VARIABLES
    \* ---- file-scope state of network.cpp
    connState,               \* ConnectionState
    wsConnected,             \* bool, set by the event callback
    gameJoined,              \* bool, set by the event callback
    lastError,               \* char[128]
    serverHost,              \* char[16], "" until discovered
    serverPort,              \* uint16_t
    lastDiscoveryBroadcast,  \* unsigned long (32 bit)
    playerId,                \* char[16]
    displayCallback,         \* TRUE when a callback is registered
    currentDisplayState,     \* DisplayState
    \* ---- the environment the code talks to
    millis,                  \* the 32-bit millisecond clock
    wifiBegun,               \* WiFi.begin() has been called
    udpOpen,                 \* the WiFiUDP listener is bound
    wsBegun,                 \* webSocket.begin() has been called
    streamOpen,              \* the stream had a CONNECTED event, no DISCONNECTED
                             \* event and no webSocket.begin() since
    \* ---- what the last call did (outputs of one call, reset by every call)
    sent,                    \* frames handed to webSocket.sendTXT, in order
    probes,                  \* discovery probes broadcast
    wifiBegins,              \* calls of WiFi.begin()
    delivered,               \* DisplayStates passed to the display callback
    last,                    \* the call: its name, the phase it started in, its inputs
    \* ---- history
    inited,                  \* networkInit() has been called
    welcomed,                \* a welcome frame arrived after the latest join/rejoin
                             \* was sent and no DISCONNECTED event came after it
    advances,                \* how many times the clock has moved (bounded)
    run,                     \* how far the calls so far have followed the reference
                             \* run, and the registration frames sent along it
    owed,                    \* the server has received a join/rejoin on the current
                             \* stream and has not answered it yet
    everConnected,           \* some call so far has returned in phase CONNECTED
    \* ---- file-scope state of main.cpp
    selectedPlayer,          \* uint8_t, 1-9
    playerSelectDirty,       \* bool
    playerConfirmed,         \* bool
    lastConnState,           \* ConnectionState
    currentDisplay,          \* DisplayState
    displayDirty,            \* bool
    encoderBtnHeld,          \* encoderBtnHeldSince != 0
    resetMessageShown,       \* bool
    \* ---- what the device loop shows and does
    screen,                  \* what the OLED shows
    calls                    \* the network functions the last iteration of loop()
                             \* called, in order

vars == <<connState, wsConnected, gameJoined, lastError, serverHost, serverPort,
          lastDiscoveryBroadcast, playerId, displayCallback, currentDisplayState,
          millis, wifiBegun, udpOpen, wsBegun, streamOpen,
          sent, probes, wifiBegins, delivered, last, inited, welcomed, advances, run,
          owed, everConnected,
          selectedPlayer, playerSelectDirty, playerConfirmed, lastConnState,
          currentDisplay, displayDirty, encoderBtnHeld, resetMessageShown,
          screen, calls>>

\* the variables of main.cpp and of the device around it
mainVars == <<selectedPlayer, playerSelectDirty, playerConfirmed, lastConnState,
              currentDisplay, displayDirty, encoderBtnHeld, resetMessageShown,
              screen, calls>>

(***************************************************************************)
(* Program constants                                                       *)
(***************************************************************************)
WS_PORT == 8080
DISCOVERY_TIMEOUT_MS == 3000
DISCOVERY_MSG == "MURDERHOUSE_DISCOVER"
DISCOVERY_RESP == "MURDERHOUSE_SERVER:"
LastErrorSize == 128           \* static char lastError[128]
DiscoveryBufSize == 64         \* char buf[64]
UInt16Mod == 65536             \* uint16_t serverPort

(***************************************************************************)
(* Bounds of the model                                                     *)
(***************************************************************************)
MaxAdvances == 3                          \* the clock moves at most this many times
ClockStep == DISCOVERY_TIMEOUT_MS \div 2  \* by this much each time

(***************************************************************************)
(* Small helpers                                                           *)
(***************************************************************************)
Some(v) == [has |-> TRUE, val |-> v]
None == [has |-> FALSE, val |-> ""]

\* x | default  (ArduinoJson: the value when present, else the default)
OrDefault(opt, d) == IF opt.has THEN opt.val ELSE d

CharAt(str, i) == SubSeq(str, i, i)
Digits == "0123456789"
IsDigit(c) == \E d \in 0..9 : CharAt(Digits, d + 1) = c
DigitVal(c) == CHOOSE d \in 0..9 : CharAt(Digits, d + 1) = c
IsSpace(c) == c \in {" ", "\t", "\n", "\r"}

\* snprintf(buf, size, "%d", n) for n >= 0
RECURSIVE Dec(_)
Dec(n) == IF n < 10 THEN CharAt(Digits, n + 1)
          ELSE Dec(n \div 10) \o CharAt(Digits, (n % 10) + 1)

\* the digits of str from position i on, accumulated into acc
RECURSIVE AtoiDigits(_, _, _)
AtoiDigits(str, i, acc) ==
    IF i <= Len(str) /\ IsDigit(CharAt(str, i))
    THEN AtoiDigits(str, i + 1, acc * 10 + DigitVal(CharAt(str, i)))
    ELSE acc

RECURSIVE SkipSpace(_, _)
SkipSpace(str, i) ==
    IF i <= Len(str) /\ IsSpace(CharAt(str, i)) THEN SkipSpace(str, i + 1) ELSE i

\* atoi(str + from - 1): leading white space, an optional sign, then digits
Atoi(str, from) ==
    LET i == SkipSpace(str, from)
        c == IF i <= Len(str) THEN CharAt(str, i) ELSE ""
    IN  IF c = "-" THEN 0 - AtoiDigits(str, i + 1, 0)
        ELSE IF c = "+" THEN AtoiDigits(str, i + 1, 0)
        ELSE AtoiDigits(str, i, 0)

\* unsigned long is 32 bits on the ESP32: a value is <<high half, low half>>, each
\* half 16 bits wide, and the arithmetic is modulo 2^32
U32(hi, lo) == <<hi, lo>>
Zero32 == U32(0, 0)

\* a + d for 0 <= d < 2^16
Add32(a, d) ==
    LET lo == a[2] + d
    IN  U32((a[1] + (lo \div UInt16Mod)) % UInt16Mod, lo % UInt16Mod)

\* a - b
Sub32(a, b) ==
    LET lo == a[2] - b[2]
        borrow == IF lo < 0 THEN 1 ELSE 0
    IN  U32((a[1] - b[1] - borrow) % UInt16Mod, lo % UInt16Mod)

\* a >= n for 0 <= n < 2^16
Ge32(a, n) == a[1] > 0 \/ a[2] >= n

\* millis() when the model starts: about to wrap
ClockStart == Sub32(Zero32, U32(0, ClockStep))

\* strncpy(dst, src, size - 1); dst[size - 1] = '\0'
Strncpy(src, size) == IF Len(src) > size - 1 THEN SubSeq(src, 1, size - 1) ELSE src

\* variant: the prefix is looked for anywhere in the buffer (strstr)
StartsWith_anywhere(buf, prefix) ==
    \E i \in 1..Len(buf) :
        i + Len(prefix) - 1 <= Len(buf) /\ SubSeq(buf, i, i + Len(prefix) - 1) = prefix

\* strncmp(buf, prefix, strlen(prefix)) == 0
StartsWith(buf, prefix) ==
    Len(buf) >= Len(prefix) /\ SubSeq(buf, 1, Len(prefix)) = prefix

(***************************************************************************)
(* JSON text: serializeJson() as the terminal writes a frame, and the       *)
(* reading of that text by the peer                                        *)
(***************************************************************************)
Quote == "\""
Backslash == "\\"

\* the characters of str from position i on, as they stand inside a JSON string
RECURSIVE EscapeFrom(_, _)
EscapeFrom(str, i) ==
    IF i > Len(str) THEN ""
    ELSE LET c == CharAt(str, i)
         IN  (IF c = Quote THEN Backslash \o Quote
              ELSE IF c = Backslash THEN Backslash \o Backslash
              ELSE IF c = "\n" THEN Backslash \o "n"
              ELSE IF c = "\r" THEN Backslash \o "r"
              ELSE IF c = "\t" THEN Backslash \o "t"
              ELSE c) \o EscapeFrom(str, i + 1)

Quoted(str) == Quote \o EscapeFrom(str, 1) \o Quote

\* the members of an object (a sequence of <<key, string>> pairs, in the order
\* they were set) from the i-th on
RECURSIVE MembersFrom(_, _)
MembersFrom(members, i) ==
    IF i > Len(members) THEN ""
    ELSE (IF i > 1 THEN "," ELSE "")
           \o Quoted(members[i][1]) \o ":" \o Quoted(members[i][2])
           \o MembersFrom(members, i + 1)

serializeObject(members) == "{" \o MembersFrom(members, 1) \o "}"

\* serializeJson(doc, json) for doc = {"type": ..., "payload": {...}}
serializeJson(doc) ==
    "{" \o Quoted("type") \o ":" \o Quoted(doc.type) \o ","
        \o Quoted("payload") \o ":" \o serializeObject(doc.payload) \o "}"

\* ---- the peer: a reader of JSON text
Failed == [ok |-> FALSE, val |-> "", next |-> 0]
Read(val, next) == [ok |-> TRUE, val |-> val, next |-> next]

Peek(text, i) == IF i <= Len(text) THEN CharAt(text, i) ELSE ""

\* the body of a string from position i on (the opening quote is behind)
RECURSIVE ReadChars(_, _, _)
ReadChars(text, i, acc) ==
    LET c == Peek(text, i)
        e == Peek(text, i + 1)
    IN  IF c = "" THEN Failed
        ELSE IF c = Quote THEN Read(acc, i + 1)
        ELSE IF c = Backslash
             THEN IF e \in {Quote, Backslash, "/"} THEN ReadChars(text, i + 2, acc \o e)
                  ELSE IF e = "n" THEN ReadChars(text, i + 2, acc \o "\n")
                  ELSE IF e = "r" THEN ReadChars(text, i + 2, acc \o "\r")
                  ELSE IF e = "t" THEN ReadChars(text, i + 2, acc \o "\t")
                  ELSE Failed
        ELSE ReadChars(text, i + 1, acc \o c)

ReadString(text, i) == IF Peek(text, i) = Quote THEN ReadChars(text, i + 1, "") ELSE Failed

\* the members "key":"string" of an object from position i on, up to its brace
RECURSIVE ReadMembers(_, _, _)
ReadMembers(text, i, acc) ==
    LET k == ReadString(text, i)
        v == IF k.ok /\ Peek(text, k.next) = ":" THEN ReadString(text, k.next + 1) ELSE Failed
        all == Append(acc, <<k.val, v.val>>)
    IN  IF ~v.ok THEN Failed
        ELSE IF Peek(text, v.next) = "," THEN ReadMembers(text, v.next + 1, all)
        ELSE IF Peek(text, v.next) = "}" THEN Read(all, v.next + 1)
        ELSE Failed

\* an object whose values are strings
ReadObject(text, i) ==
    IF Peek(text, i) # "{" THEN Failed
    ELSE IF Peek(text, i + 1) = "}" THEN Read(<<>>, i + 2)
    ELSE ReadMembers(text, i + 1, <<>>)

\* a whole frame {"type": string, "payload": object}
ReadFrame(text) ==
    LET k1 == IF Peek(text, 1) = "{" THEN ReadString(text, 2) ELSE Failed
        ty == IF k1.ok /\ k1.val = "type" /\ Peek(text, k1.next) = ":"
              THEN ReadString(text, k1.next + 1) ELSE Failed
        k2 == IF ty.ok /\ Peek(text, ty.next) = "," THEN ReadString(text, ty.next + 1)
              ELSE Failed
        pl == IF k2.ok /\ k2.val = "payload" /\ Peek(text, k2.next) = ":"
              THEN ReadObject(text, k2.next + 1) ELSE Failed
    IN  IF pl.ok /\ Peek(text, pl.next) = "}" /\ pl.next = Len(text)
        THEN [ok |-> TRUE, type |-> ty.val, payload |-> pl.val]
        ELSE [ok |-> FALSE, type |-> "", payload |-> <<>>]

(***************************************************************************)
(* The state as one record, so that the C++ functions compose              *)
(***************************************************************************)
St == [connState |-> connState, wsConnected |-> wsConnected, gameJoined |-> gameJoined,
       lastError |-> lastError, serverHost |-> serverHost, serverPort |-> serverPort,
       lastDiscoveryBroadcast |-> lastDiscoveryBroadcast, playerId |-> playerId,
       displayCallback |-> displayCallback, currentDisplayState |-> currentDisplayState,
       millis |-> millis, wifiBegun |-> wifiBegun, udpOpen |-> udpOpen,
       wsBegun |-> wsBegun, streamOpen |-> streamOpen,
       sent |-> sent, probes |-> probes, wifiBegins |-> wifiBegins,
       delivered |-> delivered, last |-> last,
       inited |-> inited, welcomed |-> welcomed, advances |-> advances, owed |-> owed]

(***************************************************************************)
(* Inbound events and frames                                               *)
(***************************************************************************)
\* the display object of a playerState payload: the set of <<path, string>> pairs
\* it holds; any field, and any of the objects line1, line2, line3, leds, may be absent
NoDisplay == {}

\* display[...][...] as ArduinoJson returns it: the string when the path is there
Field(d, path) ==
    IF \E p \in d : p[1] = path
    THEN Some((CHOOSE p \in d : p[1] = path)[2])
    ELSE None

\* a text frame as deserializeJson sees it
Frame(parsed, type, message, hasDisplay, display) ==
    [parsed |-> parsed, type |-> type, message |-> message,
     hasDisplay |-> hasDisplay, display |-> display]

NoFrame == Frame(FALSE, None, None, FALSE, NoDisplay)

Event(kind, frame) == [kind |-> kind, frame |-> frame]
NoEvent == Event("NONE", NoFrame)
EvConnected == Event("CONNECTED", NoFrame)
EvDisconnected == Event("DISCONNECTED", NoFrame)
Text(frame) == Event("TEXT", frame)

WelcomeFrame == Frame(TRUE, Some("welcome"), None, FALSE, NoDisplay)
ErrorFrame(m) == Frame(TRUE, Some("error"), m, FALSE, NoDisplay)
PlayerStateFrame(d) == Frame(TRUE, Some("playerState"), None, TRUE, d)
PlayerStateNoDisplay == Frame(TRUE, Some("playerState"), None, FALSE, NoDisplay)
TypedFrame(t) == Frame(TRUE, Some(t), None, FALSE, NoDisplay)
NoTypeFrame == Frame(TRUE, None, None, FALSE, NoDisplay)
BadFrame == Frame(FALSE, None, None, FALSE, NoDisplay)

(***************************************************************************)
(* protocol.h: the enums and their parsers                                 *)
(***************************************************************************)
parseLedState(state) ==
    IF state = "dim" THEN "DIM"
    ELSE IF state = "bright" THEN "BRIGHT"
    ELSE IF state = "pulse" THEN "PULSE"
    ELSE "OFF"

parseDisplayStyle(style) ==
    IF style = "locked" THEN "LOCKED"
    ELSE IF style = "abstained" THEN "ABSTAINED"
    ELSE IF style = "waiting" THEN "WAITING"
    ELSE "NORMAL"

\* declared outside the files at hand; the names are the wire protocol's
parseGameLedState(state) ==
    IF state = "lobby" THEN "LOBBY"
    ELSE IF state = "day" THEN "DAY"
    ELSE IF state = "night" THEN "NIGHT"
    ELSE IF state = "voting" THEN "VOTING"
    ELSE IF state = "locked" THEN "LOCKED"
    ELSE IF state = "abstained" THEN "ABSTAINED"
    ELSE IF state = "dead" THEN "DEAD"
    ELSE IF state = "gameOver" THEN "GAME_OVER"
    ELSE "OFF"

\* DisplayState(): the default constructor (line3.center and statusLed are used
\* by network.cpp but not declared in the header at hand: an empty String and the
\* value parseGameLedState gives for "")
DisplayStateDefault ==
    [line1 |-> [left |-> "CONNECTING", right |-> ""],
     line2 |-> [text |-> "...", style |-> "NORMAL"],
     line3 |-> [text |-> "Please wait", left |-> "", center |-> "", right |-> ""],
     leds |-> [yes |-> "OFF", no |-> "OFF"],
     statusLed |-> "OFF"]

(***************************************************************************)
(* network.cpp: the private functions                                      *)
(***************************************************************************)
\* webSocket.sendTXT(json): the text goes out only on an open stream, and then
\* the server has a registration to answer if that is what it reads
sendTXT(s, json) ==
    [s EXCEPT !.sent = Append(@, [json |-> json, ok |-> s.streamOpen]),
              !.owed = IF s.streamOpen /\ ReadFrame(json).type \in {"join", "rejoin"}
                       THEN TRUE ELSE @]

\* JsonObject* payload: nullptr, or an object (its members in the order set)
NoPayload == [has |-> FALSE, val |-> <<>>]
Payload(members) == [has |-> TRUE, val |-> members]

\* variant: the payload is never copied into the document
sendMessage_dropsPayload(s, type, payload) ==
    LET doc == [type |-> type, payload |-> <<>>]
        s1 == sendTXT(s, serializeJson(doc))
    IN  [s1 EXCEPT !.welcomed = IF type \in {"join", "rejoin"} THEN FALSE ELSE @]

\* sendMessage(type, payload): {"type": type, "payload": payload or {}}
sendMessage(s, type, payload) ==
    LET doc == [type |-> type, payload |-> IF payload.has THEN payload.val ELSE <<>>]
        s1 == sendTXT(s, serializeJson(doc))
    IN  [s1 EXCEPT !.welcomed = IF type \in {"join", "rejoin"} THEN FALSE ELSE @]

\* variant: an LED missing from the payload keeps its previous state
parsePlayerState_keepsMissingLeds(s, frame) ==
    IF ~frame.hasDisplay THEN s
    ELSE
      LET d == frame.display
          old == s.currentDisplayState.leds
          ds == [line1 |-> [left |-> OrDefault(Field(d, "line1.left"), ""),
                            right |-> OrDefault(Field(d, "line1.right"), "")],
                 line2 |-> [text |-> OrDefault(Field(d, "line2.text"), ""),
                            style |-> parseDisplayStyle(
                                          OrDefault(Field(d, "line2.style"), "normal"))],
                 line3 |-> [text |-> OrDefault(Field(d, "line3.text"), ""),
                            left |-> OrDefault(Field(d, "line3.left"), ""),
                            center |-> OrDefault(Field(d, "line3.center"), ""),
                            right |-> OrDefault(Field(d, "line3.right"), "")],
                 leds |-> [yes |-> IF Field(d, "leds.yes").has
                                   THEN parseLedState(Field(d, "leds.yes").val) ELSE old.yes,
                           no |-> IF Field(d, "leds.no").has
                                  THEN parseLedState(Field(d, "leds.no").val) ELSE old.no],
                 statusLed |-> parseGameLedState(OrDefault(Field(d, "statusLed"), ""))]
      IN  [s EXCEPT !.currentDisplayState = ds,
                    !.delivered = IF s.displayCallback THEN Append(@, ds) ELSE @]

\* variant: the callback is also told of a playerState frame without a display
parsePlayerState_notifiesAlways(s, frame) ==
    IF ~frame.hasDisplay
    THEN [s EXCEPT !.delivered = IF s.displayCallback
                                 THEN Append(@, s.currentDisplayState) ELSE @]
    ELSE
      LET d == frame.display
          ds == [line1 |-> [left |-> OrDefault(Field(d, "line1.left"), ""),
                            right |-> OrDefault(Field(d, "line1.right"), "")],
                 line2 |-> [text |-> OrDefault(Field(d, "line2.text"), ""),
                            style |-> parseDisplayStyle(
                                          OrDefault(Field(d, "line2.style"), "normal"))],
                 line3 |-> [text |-> OrDefault(Field(d, "line3.text"), ""),
                            left |-> OrDefault(Field(d, "line3.left"), ""),
                            center |-> OrDefault(Field(d, "line3.center"), ""),
                            right |-> OrDefault(Field(d, "line3.right"), "")],
                 leds |-> [yes |-> parseLedState(OrDefault(Field(d, "leds.yes"), "off")),
                           no |-> parseLedState(OrDefault(Field(d, "leds.no"), "off"))],
                 statusLed |-> parseGameLedState(OrDefault(Field(d, "statusLed"), ""))]
      IN  [s EXCEPT !.currentDisplayState = ds,
                    !.delivered = IF s.displayCallback THEN Append(@, ds) ELSE @]

\* variant: line3 fields absent from a push keep their earlier values
parsePlayerState_keepsMissingLine3(s, frame) ==
    IF ~frame.hasDisplay THEN s
    ELSE
      LET d == frame.display
          old == s.currentDisplayState.line3
          ds == [line1 |-> [left |-> OrDefault(Field(d, "line1.left"), ""),
                            right |-> OrDefault(Field(d, "line1.right"), "")],
                 line2 |-> [text |-> OrDefault(Field(d, "line2.text"), ""),
                            style |-> parseDisplayStyle(
                                          OrDefault(Field(d, "line2.style"), "normal"))],
                 line3 |-> [text |-> OrDefault(Field(d, "line3.text"), old.text),
                            left |-> OrDefault(Field(d, "line3.left"), old.left),
                            center |-> OrDefault(Field(d, "line3.center"), old.center),
                            right |-> OrDefault(Field(d, "line3.right"), old.right)],
                 leds |-> [yes |-> parseLedState(OrDefault(Field(d, "leds.yes"), "off")),
                           no |-> parseLedState(OrDefault(Field(d, "leds.no"), "off"))],
                 statusLed |-> parseGameLedState(OrDefault(Field(d, "statusLed"), ""))]
      IN  [s EXCEPT !.currentDisplayState = ds,
                    !.delivered = IF s.displayCallback THEN Append(@, ds) ELSE @]

parsePlayerState(s, frame) ==
    IF ~frame.hasDisplay THEN s
    ELSE
      LET d == frame.display
          ds == [line1 |-> [left |-> OrDefault(Field(d, "line1.left"), ""),
                            right |-> OrDefault(Field(d, "line1.right"), "")],
                 line2 |-> [text |-> OrDefault(Field(d, "line2.text"), ""),
                            style |-> parseDisplayStyle(
                                          OrDefault(Field(d, "line2.style"), "normal"))],
                 line3 |-> [text |-> OrDefault(Field(d, "line3.text"), ""),
                            left |-> OrDefault(Field(d, "line3.left"), ""),
                            center |-> OrDefault(Field(d, "line3.center"), ""),
                            right |-> OrDefault(Field(d, "line3.right"), "")],
                 leds |-> [yes |-> parseLedState(OrDefault(Field(d, "leds.yes"), "off")),
                           no |-> parseLedState(OrDefault(Field(d, "leds.no"), "off"))],
                 statusLed |-> parseGameLedState(OrDefault(Field(d, "statusLed"), ""))]
      IN  [s EXCEPT !.currentDisplayState = ds,
                    !.delivered = IF s.displayCallback THEN Append(@, ds) ELSE @]

\* variant: a welcome also clears the error string
onText_welcomeClearsError(s, frame) ==
    IF ~frame.parsed THEN s
    ELSE IF ~frame.type.has THEN s
    ELSE IF frame.type.val = "welcome"
         THEN [s EXCEPT !.gameJoined = TRUE, !.welcomed = TRUE, !.lastError = ""]
    ELSE IF frame.type.val = "error"
         THEN [s EXCEPT !.lastError =
                            Strncpy(OrDefault(frame.message, "Unknown error"), LastErrorSize),
                        !.connState = IF @ = "JOINING" THEN "ERROR" ELSE @]
    ELSE IF frame.type.val = "playerState" THEN parsePlayerState(s, frame)
    ELSE s

\* variant: text that does not parse is reported like a server error
onText_parseFailureIsError(s, frame) ==
    IF ~frame.parsed
    THEN [s EXCEPT !.lastError = "Invalid message",
                   !.connState = IF @ = "JOINING" THEN "ERROR" ELSE @]
    ELSE IF ~frame.type.has THEN s
    ELSE IF frame.type.val = "welcome"
         THEN [s EXCEPT !.gameJoined = TRUE, !.welcomed = TRUE]
    ELSE IF frame.type.val = "error"
         THEN [s EXCEPT !.lastError =
                            Strncpy(OrDefault(frame.message, "Unknown error"), LastErrorSize),
                        !.connState = IF @ = "JOINING" THEN "ERROR" ELSE @]
    ELSE IF frame.type.val = "playerState" THEN parsePlayerState(s, frame)
    ELSE s

\* variant: a server error ends in ERROR whatever the phase
onText_errorAlwaysFatal(s, frame) ==
    IF ~frame.parsed THEN s
    ELSE IF ~frame.type.has THEN s
    ELSE IF frame.type.val = "welcome"
         THEN [s EXCEPT !.gameJoined = TRUE, !.welcomed = TRUE]
    ELSE IF frame.type.val = "error"
         THEN [s EXCEPT !.lastError =
                            Strncpy(OrDefault(frame.message, "Unknown error"), LastErrorSize),
                        !.connState = "ERROR"]
    ELSE IF frame.type.val = "playerState" THEN parsePlayerState(s, frame)
    ELSE s

\* variant: a new server error is appended to the error string
onText_appendsError(s, frame) ==
    IF ~frame.parsed THEN s
    ELSE IF ~frame.type.has THEN s
    ELSE IF frame.type.val = "welcome"
         THEN [s EXCEPT !.gameJoined = TRUE, !.welcomed = TRUE]
    ELSE IF frame.type.val = "error"
         THEN [s EXCEPT !.lastError =
                            Strncpy(@ \o OrDefault(frame.message, "Unknown error"),
                                    LastErrorSize),
                        !.connState = IF @ = "JOINING" THEN "ERROR" ELSE @]
    ELSE IF frame.type.val = "playerState" THEN parsePlayerState(s, frame)
    ELSE s

onText(s, frame) ==
    IF ~frame.parsed THEN s
    ELSE IF ~frame.type.has THEN s
    ELSE IF frame.type.val = "welcome"
         THEN [s EXCEPT !.gameJoined = TRUE, !.welcomed = TRUE]
    ELSE IF frame.type.val = "error"
         THEN [s EXCEPT !.lastError =
                            Strncpy(OrDefault(frame.message, "Unknown error"), LastErrorSize),
                        !.connState = IF @ = "JOINING" THEN "ERROR" ELSE @]
    ELSE IF frame.type.val = "playerState" THEN parsePlayerState(s, frame)
    ELSE s

\* variant: a dropped stream is reported as an error
onWebSocketEvent_dropIsError(s, ev) ==
    IF ev.kind = "DISCONNECTED"
    THEN [s EXCEPT !.wsConnected = FALSE, !.gameJoined = FALSE, !.welcomed = FALSE,
                   !.lastError = "Connection lost", !.connState = "ERROR"]
    ELSE IF ev.kind = "CONNECTED" THEN [s EXCEPT !.wsConnected = TRUE]
    ELSE IF ev.kind = "TEXT" THEN onText(s, ev.frame)
    ELSE s

\* variant: a drop of the stream clears only the stream flag
onWebSocketEvent_dropKeepsJoined(s, ev) ==
    IF ev.kind = "DISCONNECTED"
    THEN [s EXCEPT !.wsConnected = FALSE]
    ELSE IF ev.kind = "CONNECTED" THEN [s EXCEPT !.wsConnected = TRUE]
    ELSE IF ev.kind = "TEXT" THEN onText(s, ev.frame)
    ELSE s

onWebSocketEvent(s, ev) ==
    IF ev.kind = "DISCONNECTED"
    THEN [s EXCEPT !.wsConnected = FALSE, !.gameJoined = FALSE, !.welcomed = FALSE]
    ELSE IF ev.kind = "CONNECTED" THEN [s EXCEPT !.wsConnected = TRUE]
    ELSE IF ev.kind = "TEXT" THEN onText(s, ev.frame)
    ELSE s

\* the server's answer to a registration: welcome or error
IsAnswer(ev) ==
    /\ ev.kind = "TEXT" /\ ev.frame.parsed
    /\ ev.frame.type \in {Some("welcome"), Some("error")}

\* webSocket.loop(): the library pumps the stream and reports at most one event
\* to the callback per call
webSocketLoop(s, ev) ==
    IF ev.kind = "NONE" THEN s
    ELSE onWebSocketEvent(
           [s EXCEPT !.streamOpen = IF ev.kind = "CONNECTED" THEN TRUE
                                    ELSE IF ev.kind = "DISCONNECTED" THEN FALSE
                                    ELSE @,
                     !.owed = IF ev.kind = "DISCONNECTED" \/ IsAnswer(ev) THEN FALSE
                              ELSE @], ev)

\* webSocket.begin(host, port, path); onEvent(); setReconnectInterval():
\* the client starts over, and reports nothing to the callback
webSocketBegin(s) == [s EXCEPT !.wsBegun = TRUE, !.streamOpen = FALSE, !.owed = FALSE]

\* the events webSocket.loop() can report in state s
Deliverable(s, ev) ==
    \/ ev.kind = "NONE"
    \/ ev.kind = "CONNECTED" /\ s.wsBegun /\ ~s.streamOpen
    \/ ev.kind = "DISCONNECTED" /\ s.wsBegun
    \/ ev.kind = "TEXT" /\ s.wsBegun /\ s.streamOpen

\* a frame handed to sendTXT as the peer reads it
Decoded(f) == ReadFrame(f.json)

\* is the frame handed to sendTXT a join or a rejoin?
IsRegistration(f) == Decoded(f).type \in {"join", "rejoin"}

\* the payload of join and rejoin
JoinPayload(s) == Payload(<< <<"playerId", s.playerId>>, <<"source", "terminal">> >>)
RetryPayload(s) == Payload(<< <<"playerId", s.playerId>> >>)

(***************************************************************************)
(* network.cpp: the public functions                                       *)
(***************************************************************************)
networkSetPlayerId(s, playerNum) == [s EXCEPT !.playerId = Dec(playerNum)]

\* WiFi.mode(WIFI_STA); WiFi.begin(ssid, password)
wifiBegin(s) == [s EXCEPT !.wifiBegun = TRUE, !.wifiBegins = @ + 1]

\* variant: initialisation puts the default player back
networkInit_resetsPlayerId(s) ==
    wifiBegin([s EXCEPT !.connState = "WIFI_CONNECTING", !.inited = TRUE, !.playerId = "1"])

networkInit(s) == wifiBegin([s EXCEPT !.connState = "WIFI_CONNECTING", !.inited = TRUE])

networkSetDisplayCallback(s) == [s EXCEPT !.displayCallback = TRUE]

networkIsConnected(s) == s.connState = "CONNECTED" /\ s.wsConnected /\ s.gameJoined

\* a datagram as udp.parsePacket()/udp.read()/udp.remoteIP() report it
Datagram(data, ip) == [has |-> TRUE, data |-> data, ip |-> ip]
NoDatagram == [has |-> FALSE, data |-> "", ip |-> <<0, 0, 0, 0>>]

\* snprintf(serverHost, 16, "%d.%d.%d.%d", ip[0], ip[1], ip[2], ip[3])
FormatIP(ip) == Dec(ip[1]) \o "." \o Dec(ip[2]) \o "." \o Dec(ip[3]) \o "." \o Dec(ip[4])

\* serverPort = atoi(buf + strlen(DISCOVERY_RESP)); if (serverPort == 0) serverPort = WS_PORT
ParsePort(buf) ==
    LET p == Atoi(buf, Len(DISCOVERY_RESP) + 1) % UInt16Mod
    IN  IF p = 0 THEN WS_PORT ELSE p

\* udp.read(buf, sizeof(buf) - 1); buf[len] = '\0'
UdpRead(data) == Strncpy(data, DiscoveryBufSize)

\* is it time to broadcast a probe?  now2 - lastDiscoveryBroadcast >= DISCOVERY_TIMEOUT_MS
ProbeDue(s) ==
    Ge32(Sub32(s.millis, s.lastDiscoveryBroadcast), DISCOVERY_TIMEOUT_MS)

updateBoot(s) == [s EXCEPT !.connState = "WIFI_CONNECTING"]

\* variant: discovery is run again after every WiFi association
updateWifiConnecting_rediscovers(s, wifi) ==
    IF wifi
    THEN [s EXCEPT !.udpOpen = TRUE,
                   !.lastDiscoveryBroadcast = Zero32,
                   !.connState = "DISCOVERING"]
    ELSE s

\* variant: a tick without WiFi gives up
updateWifiConnecting_timesOut(s, wifi) ==
    IF wifi
    THEN IF s.serverHost # ""
         THEN [webSocketBegin(s) EXCEPT !.connState = "WS_CONNECTING"]
         ELSE [s EXCEPT !.udpOpen = TRUE,
                        !.lastDiscoveryBroadcast = Zero32,
                        !.connState = "DISCOVERING"]
    ELSE [s EXCEPT !.lastError = "WiFi timeout", !.connState = "ERROR"]

updateWifiConnecting(s, wifi) ==
    IF wifi
    THEN IF s.serverHost # ""
         THEN [webSocketBegin(s) EXCEPT !.connState = "WS_CONNECTING"]
         ELSE [s EXCEPT !.udpOpen = TRUE,
                        !.lastDiscoveryBroadcast = Zero32,
                        !.connState = "DISCOVERING"]
    ELSE s

\* variant: the listener is left open after the endpoint is resolved
updateDiscovering_keepsListening(s, dg) ==
    LET s1 == IF ProbeDue(s)
              THEN [s EXCEPT !.probes = @ + 1, !.lastDiscoveryBroadcast = s.millis]
              ELSE s
    IN  IF dg.has /\ Len(dg.data) > 0
        THEN LET buf == UdpRead(dg.data)
             IN  IF StartsWith(buf, DISCOVERY_RESP)
                 THEN [webSocketBegin([s1 EXCEPT !.serverPort = ParsePort(buf),
                                                 !.serverHost = FormatIP(dg.ip)])
                         EXCEPT !.connState = "WS_CONNECTING"]
                 ELSE s1
        ELSE s1

\* variant: a datagram that is not a reply makes discovery fail
updateDiscovering_failsOnNoise(s, dg) ==
    LET s1 == IF ProbeDue(s)
              THEN [s EXCEPT !.probes = @ + 1, !.lastDiscoveryBroadcast = s.millis]
              ELSE s
    IN  IF dg.has /\ Len(dg.data) > 0
        THEN LET buf == UdpRead(dg.data)
             IN  IF StartsWith(buf, DISCOVERY_RESP)
                 THEN [webSocketBegin([s1 EXCEPT !.serverPort = ParsePort(buf),
                                                 !.serverHost = FormatIP(dg.ip),
                                                 !.udpOpen = FALSE])
                         EXCEPT !.connState = "WS_CONNECTING"]
                 ELSE [s1 EXCEPT !.udpOpen = FALSE, !.lastError = "Discovery failed",
                                 !.connState = "ERROR"]
        ELSE s1

updateDiscovering(s, dg) ==
    LET s1 == IF ProbeDue(s)
              THEN [s EXCEPT !.probes = @ + 1, !.lastDiscoveryBroadcast = s.millis]
              ELSE s
    IN  IF dg.has /\ Len(dg.data) > 0
        THEN LET buf == UdpRead(dg.data)
             IN  IF StartsWith(buf, DISCOVERY_RESP)
                 THEN [webSocketBegin([s1 EXCEPT !.serverPort = ParsePort(buf),
                                                 !.serverHost = FormatIP(dg.ip),
                                                 !.udpOpen = FALSE])
                         EXCEPT !.connState = "WS_CONNECTING"]
                 ELSE s1
        ELSE s1

\* int is 32 bits on the ESP32
IntMax == 2147483647

\* do the digits of str from position i on, accumulated into acc, stay within int?
RECURSIVE AtoiFits(_, _, _)
AtoiFits(str, i, acc) ==
    IF i <= Len(str) /\ IsDigit(CharAt(str, i))
    THEN LET d == DigitVal(CharAt(str, i))
         IN  IF acc > (IntMax - d) \div 10 THEN FALSE
             ELSE AtoiFits(str, i + 1, acc * 10 + d)
    ELSE TRUE

AtoiInRange(str, from) ==
    LET i == SkipSpace(str, from)
        c == IF i <= Len(str) THEN CharAt(str, i) ELSE ""
    IN  AtoiFits(str, IF c \in {"-", "+"} THEN i + 1 ELSE i, 0)

\* what atoi returns for a number that does not fit an int is undefined: it can
\* be any int; these stand for them (the ends of the range, zero and its
\* neighbours, a multiple of 2^16 and a value above 2^16)
UndefinedInts == {IntMax, 0 - IntMax - 1, 0 - 1, 0, 1, UInt16Mod, UInt16Mod + 4464}

\* the values atoi(str + from - 1) can return
AtoiResults(str, from) ==
    IF AtoiInRange(str, from) THEN {Atoi(str, from)} ELSE UndefinedInts

\* variant: a zero port is stored as it is
ParsePortFrom_noDefault(n) == n % UInt16Mod

\* serverPort = n (int to uint16_t); if (serverPort == 0) serverPort = WS_PORT
ParsePortFrom(n) ==
    LET p == n % UInt16Mod
    IN  IF p = 0 THEN WS_PORT ELSE p

\* the DISCOVERING case when atoi has returned n
updateDiscoveringAtoi(s, dg, n) ==
    LET s1 == IF ProbeDue(s)
              THEN [s EXCEPT !.probes = @ + 1, !.lastDiscoveryBroadcast = s.millis]
              ELSE s
    IN  IF dg.has /\ Len(dg.data) > 0
        THEN LET buf == UdpRead(dg.data)
             IN  IF StartsWith(buf, DISCOVERY_RESP)
                 THEN [webSocketBegin([s1 EXCEPT !.serverPort = ParsePortFrom(n),
                                                 !.serverHost = FormatIP(dg.ip),
                                                 !.udpOpen = FALSE])
                         EXCEPT !.connState = "WS_CONNECTING"]
                 ELSE s1
        ELSE s1

\* variant: the join is sent but the phase is left as it is
updateWsConnecting_staysPut(s, ev) ==
    LET s1 == webSocketLoop(s, ev)
    IN  IF s1.wsConnected /\ ~s1.gameJoined
        THEN sendMessage(s1, "join", JoinPayload(s1))
        ELSE s1

updateWsConnecting(s, ev) ==
    LET s1 == webSocketLoop(s, ev)
    IN  IF s1.wsConnected /\ ~s1.gameJoined
        THEN [sendMessage(s1, "join", JoinPayload(s1)) EXCEPT !.connState = "JOINING"]
        ELSE s1

\* variant: a dropped stream is not noticed while waiting for the welcome
updateJoining_ignoresDrop(s, ev) ==
    LET s1 == webSocketLoop(s, ev)
    IN  IF s1.gameJoined THEN [s1 EXCEPT !.connState = "CONNECTED"]
        ELSE s1

updateJoining(s, ev) ==
    LET s1 == webSocketLoop(s, ev)
    IN  IF s1.gameJoined THEN [s1 EXCEPT !.connState = "CONNECTED"]
        ELSE IF ~s1.wsConnected THEN [s1 EXCEPT !.connState = "RECONNECTING"]
        ELSE s1

\* variant: a dropped stream is not noticed
updateConnected_ignoresDrop(s, ev) == webSocketLoop(s, ev)

updateConnected(s, ev) ==
    LET s1 == webSocketLoop(s, ev)
    IN  IF ~s1.wsConnected
        THEN [s1 EXCEPT !.gameJoined = FALSE, !.connState = "RECONNECTING"]
        ELSE s1

\* variant: the registration after a reconnect is a join
updateReconnecting_sendsJoin(s, wifi, ev) ==
    LET s1 == webSocketLoop(s, ev)
    IN  IF ~wifi
        THEN [wifiBegin(s1) EXCEPT !.connState = "WIFI_CONNECTING"]
        ELSE IF s1.wsConnected
        THEN [sendMessage(s1, "join", JoinPayload(s1)) EXCEPT !.connState = "JOINING"]
        ELSE s1

\* variant: the stream is looked at before the WiFi status
updateReconnecting_streamFirst(s, wifi, ev) ==
    LET s1 == webSocketLoop(s, ev)
    IN  IF s1.wsConnected
        THEN [sendMessage(s1, "rejoin", JoinPayload(s1)) EXCEPT !.connState = "JOINING"]
        ELSE IF ~wifi
        THEN [wifiBegin(s1) EXCEPT !.connState = "WIFI_CONNECTING"]
        ELSE s1

updateReconnecting(s, wifi, ev) ==
    LET s1 == webSocketLoop(s, ev)
    IN  IF ~wifi
        THEN [wifiBegin(s1) EXCEPT !.connState = "WIFI_CONNECTING"]
        ELSE IF s1.wsConnected
        THEN [sendMessage(s1, "rejoin", JoinPayload(s1)) EXCEPT !.connState = "JOINING"]
        ELSE s1

\* variant: a dropped stream is picked up in the error phase too
updateError_followsDrop(s, ev) ==
    LET s1 == webSocketLoop(s, ev)
    IN  IF ~s1.wsConnected THEN [s1 EXCEPT !.connState = "RECONNECTING"] ELSE s1

updateError(s, ev) == webSocketLoop(s, ev)

\* the phases whose case calls webSocket.loop()
Pumping == {"WS_CONNECTING", "JOINING", "CONNECTED", "RECONNECTING", "ERROR"}

networkUpdate(s, wifi, ev, dg) ==
    CASE s.connState = "BOOT" -> updateBoot(s)
      [] s.connState = "WIFI_CONNECTING" -> updateWifiConnecting(s, wifi)
      [] s.connState = "DISCOVERING" -> updateDiscovering(s, dg)
      [] s.connState = "WS_CONNECTING" -> updateWsConnecting(s, ev)
      [] s.connState = "JOINING" -> updateJoining(s, ev)
      [] s.connState = "CONNECTED" -> updateConnected(s, ev)
      [] s.connState = "RECONNECTING" -> updateReconnecting(s, wifi, ev)
      [] s.connState = "ERROR" -> updateError(s, ev)

\* networkUpdate() when atoi, if the tick calls it, returns n
networkUpdateAtoi(s, wifi, ev, dg, n) ==
    IF s.connState = "DISCOVERING" THEN updateDiscoveringAtoi(s, dg, n)
    ELSE networkUpdate(s, wifi, ev, dg)

\* variant: the error string is not cleared
networkRetryJoin_keepsError(s) ==
    IF s.connState = "ERROR"
    THEN IF s.wsConnected
         THEN [sendMessage(s, "join", RetryPayload(s)) EXCEPT !.connState = "JOINING"]
         ELSE [s EXCEPT !.connState = "RECONNECTING"]
    ELSE s

\* variant: join is resent without looking at the stream
networkRetryJoin_alwaysSends(s) ==
    IF s.connState = "ERROR"
    THEN LET s1 == [s EXCEPT !.lastError = ""]
         IN  [sendMessage(s1, "join", RetryPayload(s1)) EXCEPT !.connState = "JOINING"]
    ELSE s

\* variant: the retry is carried out in every phase
networkRetryJoin_anyPhase(s) ==
    LET s1 == [s EXCEPT !.lastError = ""]
    IN  IF s1.wsConnected
        THEN [sendMessage(s1, "join", RetryPayload(s1)) EXCEPT !.connState = "JOINING"]
        ELSE [s1 EXCEPT !.connState = "RECONNECTING"]

networkRetryJoin(s) ==
    IF s.connState = "ERROR"
    THEN LET s1 == [s EXCEPT !.lastError = ""]
         IN  IF s1.wsConnected
             THEN [sendMessage(s1, "join", RetryPayload(s1)) EXCEPT !.connState = "JOINING"]
             ELSE [s1 EXCEPT !.connState = "RECONNECTING"]
    ELSE s

networkSendSelectUp(s) ==
    IF networkIsConnected(s) THEN sendMessage(s, "selectUp", NoPayload) ELSE s

networkSendSelectDown(s) ==
    IF networkIsConnected(s) THEN sendMessage(s, "selectDown", NoPayload) ELSE s

networkSendConfirm(s) ==
    IF networkIsConnected(s) THEN sendMessage(s, "confirm", NoPayload) ELSE s

\* variant: only the stream is looked at, not the phase
networkSendAbstain_streamOnly(s) ==
    IF s.wsConnected THEN sendMessage(s, "abstain", NoPayload) ELSE s

networkSendAbstain(s) ==
    IF networkIsConnected(s) THEN sendMessage(s, "abstain", NoPayload) ELSE s

networkSendUseItem(s, itemId) ==
    IF networkIsConnected(s)
    THEN sendMessage(s, "useItem", Payload(<< <<"itemId", itemId>> >>))
    ELSE s

networkGetLastError(s) == s.lastError

(***************************************************************************)
(* The inputs the environment offers                                       *)
(***************************************************************************)
LongMessage ==
    "0123456789012345678901234567890123456789012345678901234567890123" \o
    "0123456789012345678901234567890123456789012345678901234567890123" \o "xy"

ErrorMessages == {Some("name taken"), Some(LongMessage), None}

Display1 == {<<"line1.left", "DAY 1">>, <<"line2.text", "PLAYER 3">>,
             <<"line2.style", "locked">>, <<"leds.yes", "bright">>,
             <<"statusLed", "voting">>}

\* display objects: without leds; with values the parsers do not know; with the
\* other values they know; empty
DisplayNoLeds == {<<"line1.left", "NIGHT">>, <<"line1.right", "2/5">>,
                  <<"line2.text", "VOTE">>, <<"line2.style", "waiting">>,
                  <<"line3.left", "UP">>, <<"line3.center", "|">>, <<"line3.right", "DOWN">>}
DisplayOdd == {<<"line2.style", "blink">>, <<"line3.text", "Hold">>,
               <<"leds.yes", "DIM">>, <<"leds.no", "pulse">>}
DisplayRest == {<<"line2.style", "abstained">>, <<"leds.yes", "dim">>, <<"leds.no", "bright">>}
Displays == {Display1, DisplayNoLeds, DisplayOdd, DisplayRest, NoDisplay}

\* the events of a session in which the server pushes displays
DisplayEvents == {EvConnected, Text(WelcomeFrame), Text(PlayerStateNoDisplay)}
                   \cup {Text(PlayerStateFrame(d)) : d \in Displays}

\* frames the handler has nothing to do for: text that is not JSON, JSON without a
\* type, and types it only logs or does not know
IgnoredFrames == {BadFrame, NoTypeFrame, TypedFrame("gameState"), TypedFrame("phaseChange")}

Frames == {WelcomeFrame, PlayerStateFrame(Display1), TypedFrame("gameState")}
            \cup {ErrorFrame(m) : m \in ErrorMessages}

Events == {EvConnected, EvDisconnected} \cup {Text(f) : f \in Frames}

ServerIP == <<192, 168, 1, 10>>
OtherIP == <<10, 0, 0, 7>>

\* replies of a server: the prefix, then the port
GoodDatagrams == {Datagram(DISCOVERY_RESP \o "9001", ServerIP),
                  Datagram(DISCOVERY_RESP, OtherIP)}

\* anything else heard on the discovery port: the terminal's own probe, other
\* traffic, the prefix cut short, the prefix not at the start, an empty datagram
BadDatagrams == {Datagram(DISCOVERY_MSG, OtherIP),
                 Datagram("HELLO:9001", ServerIP),
                 Datagram("MURDERHOUSE_SERVER", ServerIP),
                 Datagram(" " \o DISCOVERY_RESP \o "9001", ServerIP),
                 Datagram("", OtherIP)}

\* replies whose number is not a port: out of the 16-bit range, zero, not a
\* number, and a number followed by other text
OddPortDatagrams == {Datagram(DISCOVERY_RESP \o "70000", ServerIP),
                     Datagram(DISCOVERY_RESP \o "0", ServerIP),
                     Datagram(DISCOVERY_RESP \o "port", ServerIP),
                     Datagram(DISCOVERY_RESP \o "9001;v2", ServerIP)}

Datagrams == GoodDatagrams \cup BadDatagrams \cup OddPortDatagrams

\* the events of the stream itself, and the two answers to a registration
StreamEvents == {EvConnected, EvDisconnected, Text(WelcomeFrame),
                 Text(ErrorFrame(Some("name taken")))}

PlayerNums == {3}
\* item ids: a plain one, one with a quote and a backslash in it, the empty one
Items == {"torch", "key\"7\\", ""}

(***************************************************************************)
(* One call of a public function                                           *)
(***************************************************************************)
\* a call starts with empty outputs; last records the call: its name, the phase
\* it starts in, and what it is given (the WiFi status, the event and the datagram
\* of a tick; the argument of networkSetPlayerId and networkSendUseItem)
Begin(s, op, ev, dg) ==
    [s EXCEPT !.sent = <<>>, !.probes = 0, !.wifiBegins = 0, !.delivered = <<>>,
              !.last = [op |-> op, from |-> s.connState, ev |-> ev, dgram |-> dg,
                        wifi |-> FALSE, arg |-> <<>>]]

Call(s, op) == Begin(s, op, NoEvent, NoDatagram)

CallWith(s, op, arg) == [Call(s, op) EXCEPT !.last.arg = <<arg>>]

BeginTick(s, wifi, ev, dg) == [Begin(s, "tick", ev, dg) EXCEPT !.last.wifi = wifi]

\* the reference run: after networkInit, six ticks with these inputs
ReferenceRun ==
    << [from |-> "WIFI_CONNECTING", wifi |-> TRUE, ev |-> NoEvent, dgram |-> NoDatagram],
       [from |-> "DISCOVERING", wifi |-> TRUE, ev |-> NoEvent,
        dgram |-> Datagram(DISCOVERY_RESP \o "9001", ServerIP)],
       [from |-> "WS_CONNECTING", wifi |-> TRUE, ev |-> EvConnected, dgram |-> NoDatagram],
       [from |-> "JOINING", wifi |-> TRUE, ev |-> Text(WelcomeFrame), dgram |-> NoDatagram],
       [from |-> "CONNECTED", wifi |-> TRUE, ev |-> EvDisconnected, dgram |-> NoDatagram],
       [from |-> "RECONNECTING", wifi |-> TRUE, ev |-> EvConnected, dgram |-> NoDatagram] >>

NotOnRun == [on |-> FALSE, pos |-> 0, regs |-> <<>>]

\* the position on the reference run after the call that produced r
Follow(r) ==
    IF r.last.op = "init" THEN [on |-> TRUE, pos |-> 0, regs |-> <<>>]
    ELSE IF /\ run.on /\ run.pos < Len(ReferenceRun) /\ r.last.op = "tick"
            /\ [from |-> r.last.from, wifi |-> r.last.wifi,
                ev |-> r.last.ev, dgram |-> r.last.dgram] = ReferenceRun[run.pos + 1]
    THEN [on |-> TRUE, pos |-> run.pos + 1,
          regs |-> run.regs \o SelectSeq(r.sent, IsRegistration)]
    ELSE NotOnRun

CommitNetwork(r) ==
    /\ connState' = r.connState
    /\ wsConnected' = r.wsConnected
    /\ gameJoined' = r.gameJoined
    /\ lastError' = r.lastError
    /\ serverHost' = r.serverHost
    /\ serverPort' = r.serverPort
    /\ lastDiscoveryBroadcast' = r.lastDiscoveryBroadcast
    /\ playerId' = r.playerId
    /\ displayCallback' = r.displayCallback
    /\ currentDisplayState' = r.currentDisplayState
    /\ millis' = r.millis
    /\ wifiBegun' = r.wifiBegun
    /\ udpOpen' = r.udpOpen
    /\ wsBegun' = r.wsBegun
    /\ streamOpen' = r.streamOpen
    /\ sent' = r.sent
    /\ probes' = r.probes
    /\ wifiBegins' = r.wifiBegins
    /\ delivered' = r.delivered
    /\ last' = r.last
    /\ inited' = r.inited
    /\ welcomed' = r.welcomed
    /\ advances' = r.advances
    /\ run' = Follow(r)
    /\ owed' = r.owed
    /\ everConnected' = (everConnected \/ r.connState = "CONNECTED")

\* a call of a network function from outside the device loop
Commit(r) == CommitNetwork(r) /\ UNCHANGED mainVars


\* what the OLED shows: the player selection (displayPlayerSelect), a connection
\* status (displayConnectionStatus), the server's display (displayRender) or the
\* restart message (displayMessage)
Screen(kind, player, state, detail, display) ==
    [kind |-> kind, player |-> player, state |-> state, detail |-> detail,
     display |-> display]
PlayerSelectScreen(n) == Screen("select", n, "", "", DisplayStateDefault)
StatusScreen(state, detail) == Screen("status", 0, state, detail, DisplayStateDefault)
RenderedScreen(ds) == Screen("display", 0, "", "", ds)
MessageScreen(text) == Screen("message", 0, "", text, DisplayStateDefault)

\* millis() has moved on by d since the previous call
Elapse(s, d) == [s EXCEPT !.millis = Add32(@, d),
                          !.advances = IF d > 0 THEN @ + 1 ELSE @]

(***************************************************************************)
(* main.cpp: the device loop                                               *)
(***************************************************************************)
UInt8Mod == 256                \* uint8_t selectedPlayer

\* the state of the device: the network layer's and main.cpp's
Device ==
    [net |-> St, selectedPlayer |-> selectedPlayer,
     playerSelectDirty |-> playerSelectDirty, playerConfirmed |-> playerConfirmed,
     lastConnState |-> lastConnState, currentDisplay |-> currentDisplay,
     displayDirty |-> displayDirty, encoderBtnHeld |-> encoderBtnHeld,
     resetMessageShown |-> resetMessageShown, screen |-> screen, calls |-> calls]

\* a call of a network function made by loop()
Called(fn, arg) == [fn |-> fn, arg |-> arg]

\* networkSendIdleScrollUp / networkSendIdleScrollDown are declared in network.h
\* and called by loop(); their bodies are not in network.cpp
networkSendIdleScrollUp(s) ==
    IF networkIsConnected(s) THEN sendMessage(s, "idleScrollUp", NoPayload) ELSE s

networkSendIdleScrollDown(s) ==
    IF networkIsConnected(s) THEN sendMessage(s, "idleScrollDown", NoPayload) ELSE s

\* checkResetGesture(): low tells whether the encoder button is pressed, heldFor
\* how long it has been ("short": under RESET_HOLD_MS, "hold": at least that,
\* "confirm": at least RESET_HOLD_MS + RESET_CONFIRM_MS).  The result says
\* whether normal processing is blocked and whether the terminal restarts.
checkResetGesture(m, low, heldFor) ==
    IF low
    THEN LET m1 == IF ~m.encoderBtnHeld
                   THEN [m EXCEPT !.encoderBtnHeld = TRUE, !.resetMessageShown = FALSE]
                   ELSE m
             held == IF ~m.encoderBtnHeld THEN "short" ELSE heldFor
             m2 == IF held \in {"hold", "confirm"} /\ ~m1.resetMessageShown
                   THEN [m1 EXCEPT !.screen = MessageScreen("RESTARTING"),
                                   !.resetMessageShown = TRUE]
                   ELSE m1
         IN  [m |-> m2, blocked |-> m2.resetMessageShown, restart |-> held = "confirm"]
    ELSE LET m1 == IF m.encoderBtnHeld /\ m.resetMessageShown
                   THEN IF ~m.playerConfirmed
                        THEN [m EXCEPT !.screen = PlayerSelectScreen(m.selectedPlayer)]
                        ELSE [m EXCEPT !.displayDirty = TRUE]
                   ELSE m
         IN  [m |-> [m1 EXCEPT !.encoderBtnHeld = FALSE, !.resetMessageShown = FALSE],
              blocked |-> FALSE, restart |-> FALSE]

\* onDisplayUpdate(state), for each state the network layer handed to the callback
onDisplayUpdate(m) ==
    IF m.net.delivered = <<>> THEN m
    ELSE [m EXCEPT !.currentDisplay = m.net.delivered[Len(m.net.delivered)],
                   !.displayDirty = TRUE]

\* variant: UP at player 1 stops instead of wrapping
selectPlayer_stopsAtOne(m, event) ==
    LET m1 ==
          CASE event = "UP" ->
                 [m EXCEPT !.selectedPlayer = IF @ = 1 THEN 0 ELSE (@ + UInt8Mod - 1) % UInt8Mod,
                           !.playerSelectDirty = TRUE]
            [] event = "DOWN" ->
                 [m EXCEPT !.selectedPlayer = IF @ = 9 THEN 1 ELSE (@ + 1) % UInt8Mod,
                           !.playerSelectDirty = TRUE]
            [] event = "YES" ->
                 [m EXCEPT !.playerConfirmed = TRUE,
                           !.net = networkSetDisplayCallback(
                                       networkInit(networkSetPlayerId(@, m.selectedPlayer))),
                           !.calls = @ \o << Called("networkSetPlayerId", <<m.selectedPlayer>>),
                                            Called("networkInit", <<>>),
                                            Called("networkSetDisplayCallback", <<>>) >>]
            [] OTHER -> m
    IN  IF m1.playerSelectDirty
        THEN [m1 EXCEPT !.screen = PlayerSelectScreen(m1.selectedPlayer),
                        !.playerSelectDirty = FALSE]
        ELSE m1

\* variant: the network is started without the selected number
selectPlayer_skipsPlayerId(m, event) ==
    LET m1 ==
          CASE event = "UP" ->
                 [m EXCEPT !.selectedPlayer = IF @ = 1 THEN 9 ELSE (@ + UInt8Mod - 1) % UInt8Mod,
                           !.playerSelectDirty = TRUE]
            [] event = "DOWN" ->
                 [m EXCEPT !.selectedPlayer = IF @ = 9 THEN 1 ELSE (@ + 1) % UInt8Mod,
                           !.playerSelectDirty = TRUE]
            [] event = "YES" ->
                 [m EXCEPT !.playerConfirmed = TRUE,
                           !.net = networkSetDisplayCallback(networkInit(@)),
                           !.calls = @ \o << Called("networkInit", <<>>),
                                            Called("networkSetDisplayCallback", <<>>) >>]
            [] OTHER -> m
    IN  IF m1.playerSelectDirty
        THEN [m1 EXCEPT !.screen = PlayerSelectScreen(m1.selectedPlayer),
                        !.playerSelectDirty = FALSE]
        ELSE m1

\* loop() while the player is not confirmed: one polled input event
selectPlayer(m, event) ==
    LET m1 ==
          CASE event = "UP" ->
                 [m EXCEPT !.selectedPlayer = IF @ = 1 THEN 9 ELSE (@ + UInt8Mod - 1) % UInt8Mod,
                           !.playerSelectDirty = TRUE]
            [] event = "DOWN" ->
                 [m EXCEPT !.selectedPlayer = IF @ = 9 THEN 1 ELSE (@ + 1) % UInt8Mod,
                           !.playerSelectDirty = TRUE]
            [] event = "YES" ->
                 [m EXCEPT !.playerConfirmed = TRUE,
                           !.net = networkSetDisplayCallback(
                                       networkInit(networkSetPlayerId(@, m.selectedPlayer))),
                           !.calls = @ \o << Called("networkSetPlayerId", <<m.selectedPlayer>>),
                                            Called("networkInit", <<>>),
                                            Called("networkSetDisplayCallback", <<>>) >>]
            [] OTHER -> m
    IN  IF m1.playerSelectDirty
        THEN [m1 EXCEPT !.screen = PlayerSelectScreen(m1.selectedPlayer),
                        !.playerSelectDirty = FALSE]
        ELSE m1

\* loop(): the connection state returned by the tick differs from the last one
showConnState(m) ==
    LET cs == m.net.connState
    IN  IF cs # m.lastConnState
        THEN LET m1 == [m EXCEPT !.lastConnState = cs]
             IN  IF cs # "CONNECTED"
                 THEN [m1 EXCEPT !.screen =
                           StatusScreen(cs, IF cs = "ERROR"
                                            THEN networkGetLastError(m.net) ELSE "")]
                 ELSE m1
        ELSE m

\* loop(): is the display one on which the dial scrolls the idle view?
hasActiveEvent(ds) ==
    ds.leds.yes = "BRIGHT" \/ ds.statusLed \in {"VOTING", "LOCKED", "ABSTAINED"}
isIdle(ds) ==
    ~hasActiveEvent(ds) /\ ds.statusLed \notin {"LOBBY", "GAME_OVER", "DEAD"}

\* one network call of loop(), recorded
CallNet(m, fn, arg, net) == [m EXCEPT !.net = net, !.calls = Append(@, Called(fn, arg))]

\* loop(): a polled input event while connected.  idx and itemId stand for
\* currentDisplay.idleScrollIndex and currentDisplay.icons[idx].id
routeInput(m, event, idx, itemId) ==
    LET ds == m.currentDisplay
    IN  CASE event = "UP" ->
               IF isIdle(ds)
               THEN CallNet(m, "networkSendIdleScrollUp", <<>>, networkSendIdleScrollUp(m.net))
               ELSE CallNet(m, "networkSendSelectUp", <<>>, networkSendSelectUp(m.net))
          [] event = "DOWN" ->
               IF isIdle(ds)
               THEN CallNet(m, "networkSendIdleScrollDown", <<>>,
                            networkSendIdleScrollDown(m.net))
               ELSE CallNet(m, "networkSendSelectDown", <<>>, networkSendSelectDown(m.net))
          [] event = "YES" ->
               IF isIdle(ds) /\ ds.leds.yes = "DIM"
               THEN IF idx > 0 /\ idx <= 2
                    THEN CallNet(m, "networkSendUseItem", <<itemId>>,
                                 networkSendUseItem(m.net, itemId))
                    ELSE m
               ELSE CallNet(m, "networkSendConfirm", <<>>, networkSendConfirm(m.net))
          [] event = "NO" ->
               CallNet(m, "networkSendAbstain", <<>>, networkSendAbstain(m.net))
          [] OTHER -> m

\* loop(): if (displayDirty) { displayRender(currentDisplay); displayDirty = false; }
renderIfDirty(m) ==
    IF m.displayDirty
    THEN [m EXCEPT !.screen = RenderedScreen(m.currentDisplay), !.displayDirty = FALSE]
    ELSE m

\* variant: in ERROR every input event retries
handleInput_anyEventRetries(m, event, idx, itemId) ==
    IF networkIsConnected(m.net)
    THEN renderIfDirty(routeInput(m, event, idx, itemId))
    ELSE IF m.net.connState = "ERROR"
    THEN IF event # "NONE"
         THEN CallNet(m, "networkRetryJoin", <<>>, networkRetryJoin(m.net))
         ELSE m
    ELSE m

\* loop(): input handling by connection state
handleInput(m, event, idx, itemId) ==
    IF networkIsConnected(m.net)
    THEN renderIfDirty(routeInput(m, event, idx, itemId))
    ELSE IF m.net.connState = "ERROR"
    THEN IF event \in {"YES", "NO"}
         THEN CallNet(m, "networkRetryJoin", <<>>, networkRetryJoin(m.net))
         ELSE m
    ELSE m

Init ==
    /\ connState = "BOOT"
    /\ wsConnected = FALSE
    /\ gameJoined = FALSE
    /\ lastError = ""
    /\ serverHost = ""
    /\ serverPort = WS_PORT
    /\ lastDiscoveryBroadcast = Zero32
    /\ playerId = "1"
    /\ displayCallback = FALSE
    /\ currentDisplayState = DisplayStateDefault
    /\ millis = ClockStart
    /\ wifiBegun = FALSE
    /\ udpOpen = FALSE
    /\ wsBegun = FALSE
    /\ streamOpen = FALSE
    /\ sent = <<>>
    /\ probes = 0
    /\ wifiBegins = 0
    /\ delivered = <<>>
    /\ last = [op |-> "construct", from |-> "BOOT", ev |-> NoEvent, dgram |-> NoDatagram,
               wifi |-> FALSE, arg |-> <<>>]
    /\ inited = FALSE
    /\ welcomed = FALSE
    /\ advances = 0
    /\ run = NotOnRun
    /\ owed = FALSE
    /\ everConnected = FALSE
    /\ selectedPlayer = 1
    /\ playerSelectDirty = FALSE
    /\ playerConfirmed = FALSE
    /\ lastConnState = "PLAYER_SELECT"
    /\ currentDisplay = DisplayStateDefault
    /\ displayDirty = TRUE
    /\ encoderBtnHeld = FALSE
    /\ resetMessageShown = FALSE
    /\ screen = PlayerSelectScreen(1)
    /\ calls = <<>>

\* networkSetPlayerId is called before networkInit
SetPlayerId ==
    \E n \in PlayerNums :
        /\ ~inited
        /\ Commit(networkSetPlayerId(CallWith(St, "setPlayerId", n), n))

\* networkInit is called once
NetworkInit ==
    /\ ~inited
    /\ Commit(networkInit(Call(St, "init")))

SetDisplayCallback ==
    /\ ~displayCallback
    /\ Commit(networkSetDisplayCallback(Call(St, "setDisplayCallback")))

\* networkUpdate(): the environment chooses how far the clock moved, what
\* WiFi.status() says, which event webSocket.loop() reports and which datagram
\* udp.parsePacket() returns
TickWith(d, wifi, ev, dg) ==
    /\ d > 0 => advances < MaxAdvances
    /\ wifi => wifiBegun
    /\ IF connState \in Pumping THEN Deliverable(St, ev) ELSE ev = NoEvent
    /\ dg.has => connState = "DISCOVERING" /\ udpOpen
    /\ Commit(networkUpdate(BeginTick(Elapse(St, d), wifi, ev, dg), wifi, ev, dg))

TickOver(Steps, Evs, Dgs) ==
    \E d \in Steps, wifi \in BOOLEAN, ev \in Evs \cup {NoEvent}, dg \in Dgs \cup {NoDatagram} :
        TickWith(d, wifi, ev, dg)

\* every frame and event, with the clock standing still
Tick == TickOver({0}, Events, GoodDatagrams)

\* the clock moves, every datagram, the stream's events
TickTimed == TickOver({0, ClockStep}, StreamEvents, Datagrams)

\* the stream's events and the frames the handler ignores
TickFrames == TickOver({0}, StreamEvents \cup {Text(f) : f \in IgnoredFrames},
                       {Datagram(DISCOVERY_RESP \o "9001", ServerIP)})

\* what follows the prefix in a reply: ports, zero, nothing, no number, multiples
\* of 2^16, a number above 2^16, the largest port, a negative number, a number
\* after white space, a number that does not fit an int
PortTexts == {"9001", "0", "", "port", "65536", "131072", "70000", "65535", "-1", " 42",
              "99999999999"}
PortDatagrams == {Datagram(DISCOVERY_RESP \o t, ServerIP) : t \in PortTexts}

\* networkUpdate() with every such reply and every value atoi can return for it
TickPort ==
    \E wifi \in BOOLEAN, ev \in {NoEvent, EvConnected, Text(WelcomeFrame)},
       dg \in PortDatagrams \cup {NoDatagram} :
        \E n \in AtoiResults(UdpRead(dg.data), Len(DISCOVERY_RESP) + 1) :
            /\ wifi => wifiBegun
            /\ IF connState \in Pumping THEN Deliverable(St, ev) ELSE ev = NoEvent
            /\ dg.has => connState = "DISCOVERING" /\ udpOpen
            /\ Commit(networkUpdateAtoi(BeginTick(St, wifi, ev, dg), wifi, ev, dg, n))

\* the server pushes displays among other frames and the stream can drop
PushEvents == DisplayEvents \cup {EvDisconnected, Text(ErrorFrame(Some("name taken"))),
                                  Text(TypedFrame("gameState"))}

TickPush == TickOver({0}, PushEvents, {Datagram(DISCOVERY_RESP \o "9001", ServerIP)})

\* the server pushes displays
TickDisplay == TickOver({0}, DisplayEvents, {Datagram(DISCOVERY_RESP \o "9001", ServerIP)})

RetryJoin == Commit(networkRetryJoin(Call(St, "retry")))

SendSelectUp == Commit(networkSendSelectUp(Call(St, "selectUp")))
SendSelectDown == Commit(networkSendSelectDown(Call(St, "selectDown")))
SendConfirm == Commit(networkSendConfirm(Call(St, "confirm")))
SendAbstain == Commit(networkSendAbstain(Call(St, "abstain")))
SendUseItem == \E item \in Items : Commit(networkSendUseItem(CallWith(St, "useItem", item), item))

\* ---- the device loop
InputEvents == {"NONE", "UP", "DOWN", "YES", "NO"}
HeldFor == {"short", "hold", "confirm"}

\* what currentDisplay.idleScrollIndex and the icon slot under it can hold
NoSlot == [idx |-> 0, id |-> ""]
Slots == {NoSlot, [idx |-> 1, id |-> "torch"]}

CommitDevice(m) ==
    /\ CommitNetwork(m.net)
    /\ selectedPlayer' = m.selectedPlayer
    /\ playerSelectDirty' = m.playerSelectDirty
    /\ playerConfirmed' = m.playerConfirmed
    /\ lastConnState' = m.lastConnState
    /\ currentDisplay' = m.currentDisplay
    /\ displayDirty' = m.displayDirty
    /\ encoderBtnHeld' = m.encoderBtnHeld
    /\ resetMessageShown' = m.resetMessageShown
    /\ screen' = m.screen
    /\ calls' = m.calls

\* ESP.restart(): the program starts again, every static at its initial value
Restart ==
    /\ connState' = "BOOT"
    /\ wsConnected' = FALSE
    /\ gameJoined' = FALSE
    /\ lastError' = ""
    /\ serverHost' = ""
    /\ serverPort' = WS_PORT
    /\ lastDiscoveryBroadcast' = Zero32
    /\ playerId' = "1"
    /\ displayCallback' = FALSE
    /\ currentDisplayState' = DisplayStateDefault
    /\ millis' = ClockStart
    /\ wifiBegun' = FALSE
    /\ udpOpen' = FALSE
    /\ wsBegun' = FALSE
    /\ streamOpen' = FALSE
    /\ sent' = <<>>
    /\ probes' = 0
    /\ wifiBegins' = 0
    /\ delivered' = <<>>
    /\ last' = [op |-> "construct", from |-> "BOOT", ev |-> NoEvent, dgram |-> NoDatagram,
               wifi |-> FALSE, arg |-> <<>>]
    /\ inited' = FALSE
    /\ welcomed' = FALSE
    /\ advances' = 0
    /\ run' = NotOnRun
    /\ owed' = FALSE
    /\ everConnected' = FALSE
    /\ selectedPlayer' = 1
    /\ playerSelectDirty' = FALSE
    /\ playerConfirmed' = FALSE
    /\ lastConnState' = "PLAYER_SELECT"
    /\ currentDisplay' = DisplayStateDefault
    /\ displayDirty' = TRUE
    /\ encoderBtnHeld' = FALSE
    /\ resetMessageShown' = FALSE
    /\ screen' = PlayerSelectScreen(1)
    /\ calls' = <<>>

\* one iteration of loop(): the environment chooses the encoder button, the input
\* event inputPoll() has, and what the tick is given.  The reset gesture comes
\* first; then player selection until the player is confirmed; after that the
\* tick, the display callback it ran, the connection state change and the input.
LoopWith(low, heldFor, event, wifi, ev, dg, slot) ==
    /\ (low /\ encoderBtnHeld) \/ heldFor = "short"
    /\ event = "YES" \/ slot = NoSlot
    /\ wifi => playerConfirmed /\ wifiBegun
    /\ ev # NoEvent => playerConfirmed /\ connState \in Pumping /\ Deliverable(St, ev)
    /\ dg.has => playerConfirmed /\ connState = "DISCOVERING" /\ udpOpen
    /\ \E m0 \in {[Device EXCEPT
                      !.calls = <<>>,
                      !.net = [Begin(St, "loop", ev, dg) EXCEPT !.last.wifi = wifi,
                                                                !.last.arg = <<event>>]]} :
       \E g \in {checkResetGesture(m0, low, heldFor)} :
            \* an iteration the gesture blocks or ends polls nothing and does not tick
            /\ (g.restart \/ g.blocked) =>
                   event = "NONE" /\ ~wifi /\ ev = NoEvent /\ ~dg.has
            /\ IF g.restart THEN Restart
               ELSE IF g.blocked THEN CommitDevice(g.m)
               ELSE IF ~playerConfirmed
               THEN \E m1 \in {selectPlayer(g.m, event)} : CommitDevice(m1)
               ELSE \E net \in {networkUpdate(g.m.net, wifi, ev, dg)} :
                    \E m1 \in {CallNet(g.m, "networkUpdate", <<>>, net)} :
                    \E m2 \in {onDisplayUpdate(m1)} :
                    \E m3 \in {showConnState(m2)} :
                    \E m4 \in {handleInput(m3, event, slot.idx, slot.id)} :
                        CommitDevice(m4)

LoopOver(Lows, InputEvs, Evs, SlotSet) ==
    \E low \in Lows, heldFor \in HeldFor, event \in InputEvs, wifi \in BOOLEAN,
       ev \in Evs \cup {NoEvent},
       dg \in {Datagram(DISCOVERY_RESP \o "9001", ServerIP), NoDatagram},
       slot \in SlotSet :
        LoopWith(low, heldFor, event, wifi, ev, dg, slot)

\* player selection with every input event and the reset gesture, then the way
\* to the first join
LoopSelect == LoopOver(BOOLEAN, InputEvents, {EvConnected}, {NoSlot})

\* the session after the first number shown is confirmed, the encoder button left
\* alone: every input event, the stream opening, the answers to a registration
\* and two display pushes (the link can still be lost)
LoopEvents == {EvConnected, Text(WelcomeFrame), Text(ErrorFrame(Some("name taken"))),
               Text(PlayerStateFrame(Display1)), Text(PlayerStateFrame(DisplayRest))}

LoopSession ==
    \E event \in InputEvents :
        /\ playerConfirmed \/ event \in {"NONE", "YES"}
        /\ LoopOver({FALSE}, {event}, LoopEvents, Slots)

\* a session that is lost and comes back: the stream's events, a welcome and one
\* display push, with the input events NONE and YES
ReconnectEvents == {EvConnected, EvDisconnected, Text(WelcomeFrame),
                    Text(PlayerStateFrame(Display1))}

LoopReconnect == LoopOver({FALSE}, {"NONE", "YES"}, ReconnectEvents, {NoSlot})

\* the session machine: construction, ticks and the retry command
Next ==
    \/ SetPlayerId
    \/ NetworkInit
    \/ SetDisplayCallback
    \/ Tick
    \/ RetryJoin

Spec == Init /\ [][Next]_vars

\* discovery and the clock
NextTimed ==
    \/ NetworkInit
    \/ TickTimed
    \/ RetryJoin

SpecTimed == Init /\ [][NextTimed]_vars

\* inbound frames of every kind the handler tells apart, except displays
NextFrames ==
    \/ NetworkInit
    \/ SetDisplayCallback
    \/ TickFrames
    \/ RetryJoin

SpecFrames == Init /\ [][NextFrames]_vars

\* the display pushed by the server
NextDisplay ==
    \/ NetworkInit
    \/ SetDisplayCallback
    \/ TickDisplay

SpecDisplay == Init /\ [][NextDisplay]_vars

\* the device loop during player selection
SpecSelect == Init /\ [][LoopSelect]_vars

\* the device loop during the session
SpecLoop == Init /\ [][LoopSession]_vars

\* the device loop while the session is lost and comes back
SpecReconnect == Init /\ [][LoopReconnect]_vars

\* discovery with every kind of port number
NextPort ==
    \/ NetworkInit
    \/ TickPort

SpecPort == Init /\ [][NextPort]_vars

\* display pushes in every phase that receives frames
NextPush ==
    \/ NetworkInit
    \/ SetDisplayCallback
    \/ TickPush
    \/ RetryJoin

SpecPush == Init /\ [][NextPush]_vars

\* the session machine and the command senders
NextApi ==
    \/ NetworkInit
    \/ SetDisplayCallback
    \/ Tick
    \/ RetryJoin
    \/ SendSelectUp
    \/ SendSelectDown
    \/ SendConfirm
    \/ SendAbstain
    \/ SendUseItem

SpecApi == Init /\ [][NextApi]_vars

(***************************************************************************)
(* Properties                                                              *)
(***************************************************************************)
IsErrorEvent(ev) == ev.kind = "TEXT" /\ ev.frame.parsed /\ ev.frame.type = Some("error")

\* C1: between calls, networkIsConnected() is true exactly when the phase is
\* CONNECTED; so whenever the phase is CONNECTED both flags are true.
C1_IsConnectedIffConnected ==
    /\ networkIsConnected(St) <=> connState = "CONNECTED"
    /\ connState = "CONNECTED" => wsConnected /\ gameJoined

C1_Witness ==
    /\ last.op = "tick" /\ last.from = "JOINING"
    /\ connState = "CONNECTED" /\ networkIsConnected(St)

\* C2: every join or rejoin frame is sent on a stream that is connected at that
\* moment (a CONNECTED event, no DISCONNECTED event and no webSocket.begin since).
C2_RegistrationOnlyOnOpenStream ==
    \A i \in 1..Len(sent) : IsRegistration(sent[i]) => sent[i].ok

\* C3: a call that changes the phase to CONNECTED finds the handshake of the
\* current attempt complete: a welcome arrived after the latest join/rejoin was
\* sent, no DISCONNECTED event came after that welcome, and the stream is open.
C3_ConnectedOnlyAfterWelcome ==
    (last.from # "CONNECTED" /\ connState = "CONNECTED") => (welcomed /\ streamOpen)

\* C4: a tick that starts in JOINING and whose pump delivers a welcome frame
\* returns CONNECTED and leaves LastError as it was.
C4_WelcomeInJoining ==
    [][(connState = "JOINING" /\ last'.op = "tick" /\ last'.ev = Text(WelcomeFrame))
         => (connState' = "CONNECTED" /\ lastError' = lastError)]_vars

C4_Witness ==
    /\ last.op = "tick" /\ last.from = "JOINING" /\ last.ev = Text(WelcomeFrame)
    /\ connState = "CONNECTED" /\ lastError # ""

\* C5: a tick that starts in JOINING and whose pump delivers an error frame with
\* message m ends in phase ERROR with networkGetLastError() = m (stated here for
\* the messages that fit the buffer).
C5_ErrorInJoining ==
    (/\ last.op = "tick" /\ last.from = "JOINING"
     /\ IsErrorEvent(last.ev) /\ last.ev.frame.message.has
     /\ Len(last.ev.frame.message.val) < LastErrorSize)
        => (connState = "ERROR" /\ networkGetLastError(St) = last.ev.frame.message.val)

\* C6: ERROR is left only by the retry command: whatever a call other than
\* networkRetryJoin that starts in ERROR receives, it ends in ERROR.
C6_ErrorAbsorbing ==
    (last.from = "ERROR" /\ last.op # "retry") => connState = "ERROR"

C6_Witness ==
    /\ last.op = "tick" /\ last.from = "ERROR" /\ last.ev = EvDisconnected
    /\ connState = "ERROR" /\ ~wsConnected

\* C7: networkRetryJoin() in ERROR with the stream connected sends exactly one
\* frame, a join, moves to JOINING and leaves LastError empty.
C7_RetryWhileConnected ==
    [][(connState = "ERROR" /\ streamOpen /\ last'.op = "retry")
         => (/\ Len(sent') = 1 /\ Decoded(sent'[1]).type = "join"
             /\ connState' = "JOINING" /\ lastError' = "")]_vars

C7_Witness ==
    /\ last.op = "retry" /\ last.from = "ERROR" /\ streamOpen
    /\ connState = "JOINING" /\ Len(sent) = 1

\* C8: networkRetryJoin() in ERROR with the stream not connected sends nothing,
\* moves to RECONNECTING and leaves LastError empty.
C8_RetryWhileDisconnected ==
    [][(connState = "ERROR" /\ ~streamOpen /\ last'.op = "retry")
         => (sent' = <<>> /\ connState' = "RECONNECTING" /\ lastError' = "")]_vars

C8_Witness ==
    /\ last.op = "retry" /\ last.from = "ERROR" /\ ~streamOpen
    /\ connState = "RECONNECTING" /\ sent = <<>>

\* C9: once discovery has resolved the endpoint, host and port never change, the
\* phase is never DISCOVERING again and no probe is broadcast, across reconnect
\* cycles and WiFi loss.
C9_EndpointResolvedOnce ==
    [][/\ serverHost' # "" => connState' # "DISCOVERING"
       /\ serverHost # "" => (/\ serverHost' = serverHost
                              /\ serverPort' = serverPort
                              /\ probes' = 0)]_vars

\* the endpoint has survived a WiFi loss and a new association
C9_Witness ==
    /\ last.op = "tick" /\ last.from = "WIFI_CONNECTING"
    /\ connState = "WS_CONNECTING" /\ serverHost # ""

\* C10: in DISCOVERING a datagram that does not begin with the response prefix is
\* discarded: same phase, endpoint untouched (host still empty), listener still
\* open, stream not opened.
C10_BadDatagramDiscarded ==
    [][(connState = "DISCOVERING" /\ last'.op = "tick" /\ last'.dgram \in BadDatagrams)
         => (/\ connState' = "DISCOVERING"
             /\ serverHost' = "" /\ serverHost' = serverHost
             /\ serverPort' = serverPort
             /\ udpOpen' /\ wsBegun' = wsBegun /\ sent' = <<>>)]_vars

C10_Witness ==
    /\ last.op = "tick" /\ last.from = "DISCOVERING"
    /\ last.dgram = Datagram(" " \o DISCOVERY_RESP \o "9001", ServerIP)
    /\ connState = "DISCOVERING" /\ udpOpen

\* the decimal number that follows the prefix in a reply, 0 when there is none
NumberAfterPrefix(data) == AtoiDigits(data, Len(DISCOVERY_RESP) + 1, 0)

\* C11: in DISCOVERING a datagram that begins with the response prefix resolves
\* the endpoint in that tick: host is the sender's address, port is the decimal
\* number after the prefix (8080 when it is missing, not a number or zero), the
\* stream is opened and the phase is WS_CONNECTING.
C11_ReplyResolvesEndpoint ==
    (/\ last.op = "tick" /\ last.from = "DISCOVERING"
     /\ last.dgram.has /\ StartsWith(last.dgram.data, DISCOVERY_RESP))
        => (/\ connState = "WS_CONNECTING"
            /\ serverHost = FormatIP(last.dgram.ip)
            /\ serverPort = (IF NumberAfterPrefix(last.dgram.data) = 0 THEN 8080
                             ELSE NumberAfterPrefix(last.dgram.data))
            /\ wsBegun /\ ~udpOpen)

\* the phases the reference run passes through
ReferencePhases == <<"WIFI_CONNECTING", "DISCOVERING", "WS_CONNECTING", "JOINING",
                     "CONNECTED", "RECONNECTING", "JOINING">>

\* C12: along the reference run (WiFi up without endpoint, valid reply with port
\* 9001, stream up, welcome, stream drop, stream back up) the phases are
\* WIFI_CONNECTING, DISCOVERING, WS_CONNECTING, JOINING, CONNECTED, RECONNECTING,
\* JOINING; the port is 9001; the first registration frame sent is join and the
\* frame sent on leaving RECONNECTING is rejoin.
C12_ReferenceRun ==
    run.on =>
        /\ connState = ReferencePhases[run.pos + 1]
        /\ run.pos >= 2 => serverPort = 9001
        /\ run.pos >= 3 => (Len(run.regs) >= 1 /\ Decoded(run.regs[1]).type = "join")
        /\ run.pos = 6 => (/\ Len(sent) = 1 /\ Decoded(sent[1]).type = "rejoin"
                           /\ Len(run.regs) = 2 /\ run.regs[2] = sent[1])

C12_Witness ==
    /\ run.on /\ run.pos = 6
    /\ last.op = "tick" /\ last.from = "RECONNECTING" /\ connState = "JOINING"

\* the state of network.cpp and of the transport it drives
ProgramState == <<connState, wsConnected, gameJoined, lastError, serverHost, serverPort,
                  lastDiscoveryBroadcast, playerId, displayCallback, currentDisplayState,
                  wifiBegun, udpOpen, wsBegun, streamOpen>>

\* the command senders (by the name of the call) and the type tag of each
CommandTag == [selectUp |-> "selectUp", selectDown |-> "selectDown",
               confirm |-> "confirm", abstain |-> "abstain", useItem |-> "useItem"]
CommandOps == DOMAIN CommandTag
CommandTags == {CommandTag[op] : op \in CommandOps}

\* C13: a command sender called outside CONNECTED sends nothing and changes no
\* state; called in CONNECTED it sends exactly one frame, with its own type tag;
\* and no call in any other phase ever sends a command frame.
C13_CommandsOnlyWhenConnected ==
    /\ [][last'.op \in CommandOps =>
            IF connState = "CONNECTED"
            THEN /\ Len(sent') = 1 /\ sent'[1].ok
                 /\ Decoded(sent'[1]).type = CommandTag[last'.op]
            ELSE /\ sent' = <<>>
                 /\ ProgramState' = ProgramState]_vars
    /\ [](\A i \in 1..Len(sent) :
             Decoded(sent[i]).type \in CommandTags => last.from = "CONNECTED")

C13_Witness ==
    /\ last.op = "abstain" /\ last.from = "JOINING" /\ wsConnected /\ sent = <<>>

\* the payload-less commands
PlainOps == CommandOps \ {"useItem"}

\* C14: what the peer reads from the frame of networkSendUseItem(s) is exactly
\* type "useItem" with payload {"itemId": s}, for every item id s; from the frame
\* of a payload-less command, its type with an empty object as payload.
C14_EncodingFaithful ==
    /\ (last.op = "useItem" /\ last.from = "CONNECTED")
          => (/\ Len(sent) = 1
              /\ Decoded(sent[1]) = [ok |-> TRUE, type |-> "useItem",
                                     payload |-> << <<"itemId", last.arg[1]>> >>])
    /\ (last.op \in PlainOps /\ last.from = "CONNECTED")
          => (/\ Len(sent) = 1
              /\ Decoded(sent[1]) = [ok |-> TRUE, type |-> CommandTag[last.op],
                                     payload |-> <<>>])

C14_Witness ==
    /\ last.op = "useItem" /\ last.from = "CONNECTED"
    /\ last.arg = <<"key\"7\\">> /\ Len(sent) = 1

\* the program state in a state record
ProgramStateOf(s) == <<s.connState, s.wsConnected, s.gameJoined, s.lastError, s.serverHost,
                       s.serverPort, s.lastDiscoveryBroadcast, s.playerId, s.displayCallback,
                       s.currentDisplayState, s.wifiBegun, s.udpOpen, s.wsBegun, s.streamOpen>>

\* C15: a text frame that does not parse, has no type, or has a type other than
\* welcome/error/playerState has no effect: the tick that receives it ends as the
\* same tick does when the pump reports nothing (same phase, flags, LastError,
\* endpoint, DisplayState and frames sent), and the display callback is not invoked.
C15_IgnoredFrameHasNoEffect ==
    [][(last'.op = "tick" /\ last'.ev.kind = "TEXT" /\ last'.ev.frame \in IgnoredFrames)
         => LET now == [St EXCEPT !.millis = millis', !.advances = advances']
                quiet == networkUpdate(
                             BeginTick(now, last'.wifi, NoEvent, last'.dgram),
                             last'.wifi, NoEvent, last'.dgram)
            IN  /\ ProgramState' = ProgramStateOf(quiet)
                /\ sent' = quiet.sent
                /\ delivered' = <<>>
                /\ lastError' = lastError
                /\ currentDisplayState' = currentDisplayState
                /\ wsConnected' = wsConnected /\ gameJoined' = gameJoined
                /\ serverHost' = serverHost /\ serverPort' = serverPort]_vars

C15_Witness ==
    /\ last.op = "tick" /\ last.from = "JOINING" /\ last.ev = Text(BadFrame)
    /\ connState = "JOINING" /\ displayCallback

\* what the wire protocol says a display object means
TextAt(d, path) == IF \E p \in d : p[1] = path THEN (CHOOSE p \in d : p[1] = path)[2] ELSE ""
StyleNamed(v) == CASE v = "locked" -> "LOCKED"
                   [] v = "abstained" -> "ABSTAINED"
                   [] v = "waiting" -> "WAITING"
                   [] OTHER -> "NORMAL"
LedNamed(v) == CASE v = "dim" -> "DIM"
                 [] v = "bright" -> "BRIGHT"
                 [] v = "pulse" -> "PULSE"
                 [] OTHER -> "OFF"

\* C16: for a playerState frame with a display object the DisplayState handed to
\* the callback is fully populated: a missing text field is "", line2.style
\* missing or unknown is NORMAL, an LED missing or unknown is OFF, and the known
\* values map to their enum values.
C16_DisplayFullyPopulated ==
    (/\ last.op = "tick" /\ last.ev.kind = "TEXT"
     /\ last.ev.frame.parsed /\ last.ev.frame.type = Some("playerState")
     /\ last.ev.frame.hasDisplay /\ displayCallback)
        => LET d == last.ev.frame.display
           IN  /\ Len(delivered) = 1
               /\ delivered[1].line1 = [left |-> TextAt(d, "line1.left"),
                                        right |-> TextAt(d, "line1.right")]
               /\ delivered[1].line2 = [text |-> TextAt(d, "line2.text"),
                                        style |-> StyleNamed(TextAt(d, "line2.style"))]
               /\ delivered[1].line3 = [text |-> TextAt(d, "line3.text"),
                                        left |-> TextAt(d, "line3.left"),
                                        center |-> TextAt(d, "line3.center"),
                                        right |-> TextAt(d, "line3.right")]
               /\ delivered[1].leds = [yes |-> LedNamed(TextAt(d, "leds.yes")),
                                       no |-> LedNamed(TextAt(d, "leds.no"))]

\* a display without leds arrives while an LED is lit
C16_Witness ==
    /\ last.op = "tick" /\ last.ev = Text(PlayerStateFrame(DisplayNoLeds))
    /\ Len(delivered) = 1
    /\ delivered[1].leds = [yes |-> "OFF", no |-> "OFF"]
    /\ delivered[1].line2.style = "WAITING"

\* C17: transport loss is never surfaced as an error: a tick whose pump reports
\* DISCONNECTED, or during which WiFi is not associated (and no frame arrives),
\* in whatever phase, does not make the phase ERROR and leaves LastError as it is.
C17_TransportLossIsNotAnError ==
    [][(/\ last'.op = "tick"
        /\ \/ last'.ev = EvDisconnected
           \/ ~last'.wifi /\ last'.ev = NoEvent)
         => (/\ connState' = "ERROR" => connState = "ERROR"
             /\ lastError' = lastError)]_vars

\* the stream drops while WiFi is gone, with an earlier server error on record
C17_Witness ==
    /\ last.op = "tick" /\ last.from = "CONNECTED"
    /\ last.ev = EvDisconnected /\ ~last.wifi
    /\ connState = "RECONNECTING" /\ lastError = "name taken"

\* the network is available: WiFi is associated, a discovery reply is there in
\* DISCOVERING, the stream connects if it is not connected and is not dropped, and
\* the server sends a welcome for a registration it has received, nothing else
AvailableEvents ==
    IF connState \notin Pumping THEN {NoEvent}
    ELSE {NoEvent} \cup (IF wsBegun /\ ~streamOpen THEN {EvConnected} ELSE {})
                   \cup (IF streamOpen /\ owed THEN {Text(WelcomeFrame)} ELSE {})

AvailableDatagram ==
    IF connState = "DISCOVERING" /\ udpOpen
    THEN Datagram(DISCOVERY_RESP \o "9001", ServerIP) ELSE NoDatagram

\* a tick on the available network, or retry in ERROR, gets the session further
CanMove ==
    \/ connState = "ERROR"
    \/ \E ev \in AvailableEvents :
          LET r == networkUpdate(BeginTick(St, wifiBegun, ev, AvailableDatagram),
                                 wifiBegun, ev, AvailableDatagram)
          IN  ProgramStateOf(r) # ProgramState \/ r.owed # owed

\* C18: recovery: no reachable state is a dead end. Once the network is available
\* (and retry is pressed in ERROR) the phase becomes CONNECTED; so in every state
\* after networkInit in which the phase is not CONNECTED, some tick on the
\* available network, or retry, changes the state of the session.
C18_NoDeadEnd == (inited /\ connState # "CONNECTED") => CanMove

\* the decimal numeral of each player number the user can confirm
PlayerName == [n \in PlayerNums |-> CASE n = 3 -> "3"]

\* the members of a frame's payload, as the peer reads them
HasMember(f, key, value) ==
    \E j \in 1..Len(Decoded(f).payload) : Decoded(f).payload[j] = <<key, value>>
HasKey(f, key) ==
    \E j \in 1..Len(Decoded(f).payload) : Decoded(f).payload[j][1] = key

C20_RegistrationPayload ==
    \A i \in 1..Len(sent) :
        IsRegistration(sent[i])
            => (HasKey(sent[i], "playerId") /\ HasMember(sent[i], "source", "terminal"))

(***************************************************************************)
(* The phase graph and the recovery paths                                  *)
(***************************************************************************)
\* the edges of the documented phase graph
Edges ==
    {<<"BOOT", "WIFI_CONNECTING">>,
     <<"WIFI_CONNECTING", "DISCOVERING">>, <<"WIFI_CONNECTING", "WS_CONNECTING">>,
     <<"DISCOVERING", "WS_CONNECTING">>,
     <<"WS_CONNECTING", "JOINING">>,
     <<"JOINING", "CONNECTED">>, <<"JOINING", "ERROR">>, <<"JOINING", "RECONNECTING">>,
     <<"CONNECTED", "RECONNECTING">>,
     <<"RECONNECTING", "WIFI_CONNECTING">>, <<"RECONNECTING", "JOINING">>,
     <<"ERROR", "JOINING">>, <<"ERROR", "RECONNECTING">>}

\* C21: a call of networkUpdate or networkRetryJoin either leaves the phase alone
\* or moves it along one documented edge; in particular ERROR is entered only from
\* JOINING, and WIFI_CONNECTING goes straight to WS_CONNECTING only when the
\* endpoint is already known.
C21_OnlyDocumentedEdges ==
    [][(last'.op \in {"tick", "retry"} /\ connState' # connState)
          => /\ <<connState, connState'>> \in Edges
             /\ connState' = "ERROR" => connState = "JOINING"
             /\ (connState = "WIFI_CONNECTING" /\ connState' = "WS_CONNECTING")
                    => serverHost # ""]_vars

\* WiFi comes back after a loss and discovery is skipped for the known endpoint
C21_Witness ==
    /\ last.op = "tick" /\ last.from = "WIFI_CONNECTING" /\ connState = "WS_CONNECTING"
    /\ serverHost # "" /\ probes = 0 /\ everConnected

\* what LastError is after each call, given what it is to show after an error frame
LastErrorFollows(Shown(_)) ==
    IF last'.op = "tick" /\ IsErrorEvent(last'.ev)
    THEN /\ lastError' = Shown(last'.ev.frame)
         /\ connState # "JOINING" => connState' = connState
    ELSE IF last'.op = "retry" /\ connState = "ERROR"
    THEN lastError' = ""
    ELSE lastError' = lastError

\* the message member of an error frame, "Unknown error" when it has none
MessageOf(frame) == OrDefault(frame.message, "Unknown error")

\* the same, cut to what the buffer holds
MessageKept(frame) ==
    LET m == MessageOf(frame)
    IN  IF Len(m) < LastErrorSize THEN m ELSE SubSeq(m, 1, LastErrorSize - 1)

\* C22 as stated: after every call LastError is exactly the message of the latest
\* error frame received since the last retry out of ERROR ("Unknown error" when
\* that frame had no message, the empty string when there was no such frame), and
\* an error frame outside JOINING leaves the phase alone.
C22_LastErrorIsLatestMessage == [][LastErrorFollows(MessageOf)]_vars

\* C22: after every call LastError is the message of the latest error frame
\* received since the last retry out of ERROR, cut to its first 127 characters,
\* "Unknown error" when that frame had no message, the empty string when there was
\* no such frame; an error frame outside JOINING leaves the phase alone.
C22_LastErrorIsLatestKept == [][LastErrorFollows(MessageKept)]_vars

\* a long error message arrives in CONNECTED: the phase stays, 127 characters kept
C22_Witness ==
    /\ last.op = "tick" /\ last.from = "CONNECTED" /\ IsErrorEvent(last.ev)
    /\ last.ev.frame.message = Some(LongMessage)
    /\ connState = "CONNECTED" /\ Len(lastError) = LastErrorSize - 1
    /\ lastError # LongMessage

\* C23: networkRetryJoin called in a phase other than ERROR does nothing: it sends
\* no frame and leaves the phase, LastError, the stream flags, the endpoint and
\* the rest of the program's state as they were.
C23_RetryOutsideErrorIsNoOp ==
    [][(last'.op = "retry" /\ connState # "ERROR")
          => (sent' = <<>> /\ probes' = 0 /\ wifiBegins' = 0
              /\ ProgramState' = ProgramState)]_vars

\* a retry in CONNECTED with an earlier error message still shown
C23_Witness ==
    /\ last.op = "retry" /\ last.from = "CONNECTED" /\ connState = "CONNECTED"
    /\ lastError # "" /\ wsConnected /\ gameJoined /\ sent = <<>>

\* C24: once some call has returned in phase CONNECTED, every registration frame
\* sent by a later call is a rejoin; a join is sent only before that.
C24_RejoinAfterConnected ==
    [][everConnected
          => \A i \in 1..Len(sent') :
                 IsRegistration(sent'[i]) => Decoded(sent'[i]).type = "rejoin"]_vars

\* C25: a tick that starts in CONNECTED or in JOINING and whose pump reports the
\* drop of the stream (a DISCONNECTED event, which is the only way the stream flag
\* is false after the pump in these phases) returns RECONNECTING with the joined
\* flag false and sends no frame.
C25_DropLeadsToReconnecting ==
    [][(/\ last'.op = "tick"
        /\ connState \in {"CONNECTED", "JOINING"}
        /\ last'.ev = EvDisconnected \/ ~wsConnected')
          => (/\ connState' = "RECONNECTING" /\ ~gameJoined' /\ ~wsConnected'
              /\ sent' = <<>> /\ last'.ev = EvDisconnected)]_vars

\* the stream drops while the device waits for the welcome
C25_Witness ==
    /\ last.op = "tick" /\ last.from = "JOINING" /\ last.ev = EvDisconnected
    /\ connState = "RECONNECTING" /\ ~gameJoined /\ ~streamOpen /\ sent = <<>>

\* C26: a tick that starts in RECONNECTING does exactly one of three things, in
\* this order of precedence: with WiFi not associated it restarts the association
\* and returns WIFI_CONNECTING without sending, even when the stream is connected;
\* otherwise with the stream connected it sends one rejoin and returns JOINING;
\* otherwise it stays in RECONNECTING and does nothing.
C26_ReconnectingPrecedence ==
    [][(last'.op = "tick" /\ connState = "RECONNECTING")
          => IF ~last'.wifi
             THEN /\ connState' = "WIFI_CONNECTING" /\ wifiBegins' = 1
                  /\ sent' = <<>>
             ELSE IF streamOpen'
             THEN /\ connState' = "JOINING" /\ wifiBegins' = 0
                  /\ Len(sent') = 1 /\ Decoded(sent'[1]).type = "rejoin"
             ELSE /\ connState' = "RECONNECTING" /\ wifiBegins' = 0
                  /\ sent' = <<>>]_vars

\* WiFi is lost in the tick in which the stream comes back: no rejoin is sent
C26_Witness ==
    /\ last.op = "tick" /\ last.from = "RECONNECTING" /\ ~last.wifi
    /\ last.ev = EvConnected /\ wsConnected /\ streamOpen
    /\ connState = "WIFI_CONNECTING" /\ wifiBegins = 1 /\ sent = <<>>

\* C27: whenever the phase is WIFI_CONNECTING, WiFi.begin() has been called: each
\* way into the phase (networkInit, the tick in BOOT, the tick in RECONNECTING
\* that finds WiFi lost) starts the association.
C27_AssociationStarted == connState = "WIFI_CONNECTING" => wifiBegun

\* C28: the discovery listener is bound exactly while the phase is DISCOVERING: it
\* is opened by the tick that goes from WIFI_CONNECTING to DISCOVERING and closed
\* by the tick that resolves the endpoint, and the endpoint is written only by
\* that tick, so nothing that arrives after the resolution can alter it.
C28_ListenerOnlyWhileDiscovering ==
    /\ [](udpOpen <=> connState = "DISCOVERING")
    /\ [][/\ (~udpOpen /\ udpOpen')
              => (last'.op = "tick" /\ connState = "WIFI_CONNECTING")
          /\ (udpOpen /\ ~udpOpen')
              => (last'.op = "tick" /\ last'.dgram.has /\ connState' = "WS_CONNECTING")
          /\ <<serverHost, serverPort>>' # <<serverHost, serverPort>>
              => (udpOpen /\ ~udpOpen')]_vars

\* the tick that resolves the endpoint has closed the listener
C28_Witness ==
    /\ last.op = "tick" /\ last.from = "DISCOVERING" /\ last.dgram.has
    /\ connState = "WS_CONNECTING" /\ ~udpOpen /\ serverHost = FormatIP(ServerIP)

\* the previous call was the tick that entered DISCOVERING
JustEnteredDiscovering ==
    last.op = "tick" /\ last.from = "WIFI_CONNECTING" /\ connState = "DISCOVERING"

\* C29: the first tick in DISCOVERING broadcasts a probe whatever millis() is;
\* any other tick in DISCOVERING broadcasts one iff at least DISCOVERY_TIMEOUT_MS
\* have passed since the previous broadcast, counted modulo 2^32; a tick
\* broadcasts at most once and records the time of its broadcast.
C29_ProbeOnEntryThenEveryInterval ==
    [][(last'.op = "tick" /\ connState = "DISCOVERING")
          => /\ probes' \in {0, 1}
             /\ probes' = 1
                  <=> \/ JustEnteredDiscovering
                      \/ Ge32(Sub32(millis', lastDiscoveryBroadcast), DISCOVERY_TIMEOUT_MS)
             /\ lastDiscoveryBroadcast' = IF probes' = 1 THEN millis'
                                          ELSE lastDiscoveryBroadcast]_vars

\* the datagram begins with the response prefix
IsReply(dg) ==
    /\ dg.has /\ Len(dg.data) >= Len(DISCOVERY_RESP)
    /\ SubSeq(dg.data, 1, Len(DISCOVERY_RESP)) = DISCOVERY_RESP

\* C30: a tick in DISCOVERING that gets no valid reply (no datagram, or one that
\* is not a reply) stays in DISCOVERING with the listener open and LastError
\* untouched, whether or not WiFi is still associated, and broadcasts a probe
\* whenever the interval has passed since the last one: nothing counts the
\* attempts and nothing ends the discovery.
C30_DiscoveryNeverGivesUp ==
    [][(last'.op = "tick" /\ connState = "DISCOVERING" /\ ~IsReply(last'.dgram))
          => /\ connState' = "DISCOVERING" /\ udpOpen'
             /\ lastError' = lastError /\ serverHost' = ""
             /\ Ge32(Sub32(millis', lastDiscoveryBroadcast), DISCOVERY_TIMEOUT_MS)
                  => probes' = 1]_vars

\* the clock has run to its bound, WiFi is gone, and a probe is still broadcast
C30_Witness ==
    /\ last.op = "tick" /\ last.from = "DISCOVERING" /\ ~last.wifi
    /\ ~IsReply(last.dgram) /\ advances >= MaxAdvances
    /\ connState = "DISCOVERING" /\ probes = 1 /\ lastError = ""

Registrations(frames) == SelectSeq(frames, IsRegistration)

\* C32: registration frames and entries into JOINING correspond one to one: a
\* call that changes the phase to JOINING sends exactly one frame and it is a
\* join or a rejoin; a call that sends a join or a rejoin has changed the phase to
\* JOINING; no call sends two.
C32_OneRegistrationPerJoining ==
    [][/\ (connState # "JOINING" /\ connState' = "JOINING")
            => (Len(sent') = 1 /\ Len(Registrations(sent')) = 1)
       /\ Len(Registrations(sent')) > 0
            => (connState # "JOINING" /\ connState' = "JOINING")]_vars

\* the retry out of ERROR enters JOINING with its one join
C32_Witness ==
    /\ last.op = "retry" /\ last.from = "ERROR" /\ connState = "JOINING"
    /\ Len(sent) = 1 /\ Decoded(sent[1]).type = "join"

\* the call is a tick whose pump delivers a playerState frame with a display
IsPush(call) ==
    /\ call.op = "tick" /\ call.ev.kind = "TEXT" /\ call.ev.frame.parsed
    /\ call.ev.frame.type = Some("playerState") /\ call.ev.frame.hasDisplay

\* the text fields and enums of ds are those of the display object d
ShowsDisplay(ds, d) ==
    /\ ds.line1 = [left |-> TextAt(d, "line1.left"), right |-> TextAt(d, "line1.right")]
    /\ ds.line2 = [text |-> TextAt(d, "line2.text"),
                   style |-> StyleNamed(TextAt(d, "line2.style"))]
    /\ ds.line3 = [text |-> TextAt(d, "line3.text"), left |-> TextAt(d, "line3.left"),
                   center |-> TextAt(d, "line3.center"),
                   right |-> TextAt(d, "line3.right")]
    /\ ds.leds = [yes |-> LedNamed(TextAt(d, "leds.yes")),
                  no |-> LedNamed(TextAt(d, "leds.no"))]

\* C33: a tick whose pump delivers a playerState frame with a display object
\* stores the state parsed from that frame and, when a callback is registered,
\* invokes it exactly once with that state before the tick returns, whatever the
\* phase; every other call (another frame type, a playerState frame without a
\* display, no frame, no tick) invokes nothing and leaves DisplayState as it was;
\* without a registered callback nothing is invoked.
C33_CallbackOncePerPush ==
    [][IF IsPush(last')
       THEN /\ ShowsDisplay(currentDisplayState', last'.ev.frame.display)
            /\ delivered' = IF displayCallback THEN <<currentDisplayState'>> ELSE <<>>
       ELSE /\ delivered' = <<>>
            /\ currentDisplayState' = currentDisplayState]_vars

\* a display push arrives in phase ERROR and is handed to the callback
C33_Witness ==
    /\ IsPush(last) /\ last.from = "ERROR" /\ connState = "ERROR"
    /\ last.ev.frame.display = Display1
    /\ delivered = <<currentDisplayState>> /\ currentDisplayState.line2.text = "PLAYER 3"

\* the DisplayStates an earlier push can have left behind
EarlierStates ==
    {DisplayStateDefault}
        \cup {parsePlayerState(St, PlayerStateFrame(d)).currentDisplayState : d \in Displays}

\* C34: the DisplayState stored and delivered for a push depends on the frame of
\* that push alone: the same frame received after any other history of pushes
\* (any other DisplayState left by an earlier push, or none) gives equal line1,
\* line2, line3, leds and statusLed.
C34_PushIndependentOfHistory ==
    [][IsPush(last')
          => \A earlier \in EarlierStates :
                 LET other == parsePlayerState(
                                  [St EXCEPT !.currentDisplayState = earlier,
                                             !.delivered = <<>>],
                                  last'.ev.frame)
                 IN  /\ other.currentDisplayState = currentDisplayState'
                     /\ other.delivered = delivered']_vars

\* a push with few fields is delivered: what it lacks is empty, whatever was shown
C34_Witness ==
    /\ IsPush(last) /\ last.ev.frame.display = DisplayRest
    /\ displayCallback /\ Len(delivered) = 1
    /\ delivered[1].line3 = [text |-> "", left |-> "", center |-> "", right |-> ""]
    /\ delivered[1].line1 = [left |-> "", right |-> ""]
    /\ delivered[1].line2.style = "ABSTAINED"

\* C35: with frames delivered only between a CONNECTED event of the stream and
\* the next DISCONNECTED event, the joined flag implies the stream flag in every
\* state, and the joined flag is false whenever a call enters RECONNECTING.
C35_JoinedImpliesStream ==
    /\ [](gameJoined => wsConnected)
    /\ [][(connState # "RECONNECTING" /\ connState' = "RECONNECTING")
             => ~gameJoined']_vars

\* RECONNECTING entered by a retry from ERROR after the stream has dropped
C35_Witness ==
    /\ last.op = "retry" /\ last.from = "ERROR" /\ connState = "RECONNECTING"
    /\ ~gameJoined /\ ~wsConnected

\* the text after the prefix of a reply, and the port it stands for
PortTable ==
    {<<"9001", 9001>>, <<"65535", 65535>>, <<" 42", 42>>,
     <<"0", WS_PORT>>, <<"", WS_PORT>>, <<"port", WS_PORT>>,
     <<"65536", WS_PORT>>, <<"131072", WS_PORT>>,
     <<"70000", 4464>>, <<"-1", 65535>>}

AfterPrefix(data) == SubSeq(data, Len(DISCOVERY_RESP) + 1, Len(data))

\* C36: the stored port is never 0 and always in 1..65535; the tick that resolves
\* the endpoint stores the number after the prefix reduced to 16 bits, and the
\* default port when that is 0 (the number is 0, missing, not a number, or a
\* multiple of 65536).
C36_PortNeverZero ==
    /\ [](serverPort \in 1..(UInt16Mod - 1))
    /\ [][(last'.op = "tick" /\ connState = "DISCOVERING" /\ connState' = "WS_CONNECTING")
             => \A p \in PortTable :
                    AfterPrefix(last'.dgram.data) = p[1] => serverPort' = p[2]]_vars

\* a reply whose number is a multiple of 65536 resolves to the default port
C36_Witness ==
    /\ last.op = "tick" /\ last.from = "DISCOVERING"
    /\ last.dgram.has /\ AfterPrefix(last.dgram.data) = "65536"
    /\ connState = "WS_CONNECTING" /\ serverPort = WS_PORT

(***************************************************************************)
(* The device loop                                                         *)
(***************************************************************************)
\* the positions of calls of fn in the calls an iteration of loop() made
CallsOf(cs, fn) == {i \in 1..Len(cs) : cs[i].fn = fn}

\* the input event the iteration that just ran was given
PolledEvent == IF last.op = "loop" THEN last.arg[1] ELSE "NONE"

\* C37: the session machine is started once and only after the player confirmed.
\* An iteration of loop() that starts with the player unconfirmed never calls
\* networkUpdate, so the machine stays unstarted in BOOT until YES; networkInit is
\* called only by the iteration that confirms, once, with
\* networkSetPlayerId(selectedPlayer) the call just before it; and no iteration
\* calls networkSetPlayerId once networkInit has been called.
C37_StartedOnceAfterSelection ==
    /\ [](playerConfirmed <=> inited)
    /\ [](~playerConfirmed => connState = "BOOT" /\ ~wifiBegun /\ sent = <<>>)
    /\ [][ /\ ~playerConfirmed => CallsOf(calls', "networkUpdate") = {}
           /\ \A i \in CallsOf(calls', "networkInit") :
                 /\ ~playerConfirmed /\ ~inited /\ playerConfirmed'
                 /\ CallsOf(calls', "networkInit") = {i}
                 /\ i > 1
                 /\ calls'[i - 1] = Called("networkSetPlayerId", <<selectedPlayer>>)
                 /\ CallsOf(calls', "networkSetPlayerId") = {i - 1}
           /\ inited => CallsOf(calls', "networkSetPlayerId") = {} ]_vars

\* player 4 was dialled and confirmed: the identity was set, then the machine was
\* started, in that one iteration
C37_Witness ==
    /\ playerConfirmed /\ inited /\ selectedPlayer = 4 /\ playerId = "4"
    /\ calls = << Called("networkSetPlayerId", <<4>>), Called("networkInit", <<>>),
                  Called("networkSetDisplayCallback", <<>>) >>

\* a later iteration of the same run ticks the started machine and starts nothing
C37_WitnessTicking ==
    /\ playerConfirmed /\ inited /\ connState = "JOINING"
    /\ CallsOf(calls, "networkUpdate") = {1} /\ CallsOf(calls, "networkInit") = {}

C38_WitnessJoin ==
    /\ playerConfirmed /\ selectedPlayer = 9 /\ connState = "JOINING"
    /\ Len(sent) = 1 /\ HasMember(sent[1], "playerId", "9")

\* the functions of the network layer that send a command frame
CommandCalls == {"networkSendSelectUp", "networkSendSelectDown", "networkSendIdleScrollUp",
                 "networkSendIdleScrollDown", "networkSendConfirm", "networkSendAbstain",
                 "networkSendUseItem"}

\* the frames of a call that are not registrations
CommandFrames(fs) == {i \in 1..Len(fs) : ~IsRegistration(fs[i])}

\* C39: in an iteration of loop() that ticks the machine, input is routed by the
\* phase the tick returned (kept in lastConnState): networkRetryJoin is called only
\* when that phase is ERROR and the input event is YES or NO; a command function is
\* called, and a command frame sent, only when networkIsConnected() holds; and in
\* every other phase the tick is the iteration's only network call, whatever the
\* input event.
C39_InputRoutedByPhase ==
    [][ (playerConfirmed /\ last'.op = "loop") =>
          LET event == last'.arg[1]
              connected == networkIsConnected(St')
              ticked == CallsOf(calls', "networkUpdate") # {}
          IN  /\ CallsOf(calls', "networkRetryJoin") # {} =>
                    /\ lastConnState' = "ERROR" /\ ~connected
                    /\ event \in {"YES", "NO"}
              /\ (lastConnState' = "ERROR" /\ ~connected /\ event \in {"UP", "DOWN", "NONE"})
                    => calls' = << Called("networkUpdate", <<>>) >>
              /\ (\E i \in 1..Len(calls') : calls'[i].fn \in CommandCalls) => connected
              /\ CommandFrames(sent') # {} => connected
              /\ (ticked /\ ~connected /\ lastConnState' # "ERROR")
                    => calls' = << Called("networkUpdate", <<>>) >> ]_vars

\* a NO press while the tick returned ERROR has called retry, which registered again
C39_Witness ==
    /\ last.op = "loop" /\ PolledEvent = "NO" /\ lastConnState = "ERROR"
    /\ calls = << Called("networkUpdate", <<>>), Called("networkRetryJoin", <<>>) >>
    /\ connState = "JOINING" /\ Len(sent) = 1 /\ IsRegistration(sent[1])

\* an UP turn while the tick returned ERROR has done nothing
C39_WitnessIgnored ==
    /\ last.op = "loop" /\ PolledEvent = "UP" /\ lastConnState = "ERROR"
    /\ connState = "ERROR" /\ calls = << Called("networkUpdate", <<>>) >> /\ sent = <<>>

\* a YES press on an idle display with a usable item has sent useItem
C39_WitnessCommand ==
    /\ last.op = "loop" /\ PolledEvent = "YES" /\ networkIsConnected(St)
    /\ calls = << Called("networkUpdate", <<>>), Called("networkSendUseItem", <<"torch">>) >>
    /\ Len(sent) = 1 /\ Decoded(sent[1]).type = "useItem"

\* a YES press while the machine is still joining has sent nothing
C39_WitnessJoining ==
    /\ last.op = "loop" /\ PolledEvent = "YES" /\ connState = "JOINING" /\ last.from = "JOINING"
    /\ calls = << Called("networkUpdate", <<>>) >> /\ sent = <<>>

\* C40: an iteration of loop() that ends in CONNECTED leaves the current
\* DisplayState on the screen, not a connection-status screen: the display has
\* been rendered since the last status screen was drawn, push or no push.
C40_ConnectedShowsDisplay ==
    (last.op = "loop" /\ playerConfirmed /\ CallsOf(calls, "networkUpdate") # {}
       /\ connState = "CONNECTED")
        => screen = RenderedScreen(currentDisplay)

====
